---- MODULE Spec2Model ----
(***************************************************************************)
(* Verification model of opd-ai/minilm: the conversation store             *)
(* (internal/dialog/context_manager.go), the dialog manager's response     *)
(* resolution (DialogManager, as listed in go.interface.md), the outcomes  *)
(* of LLMBackend.GenerateResponse (internal/dialog/llm_backend.go) and the *)
(* prompt builder (PromptBuilder, as listed in unnamed/part_002).          *)
(***************************************************************************)
EXTENDS Integers, Sequences, FiniteSets, TLC

(***************************************************************************)
(* Bounds of the exploration.                                              *)
(***************************************************************************)
MaxClock == 2          \* the clock runs over 0..MaxClock
MaxAdds == 4           \* AddExchange calls explored per run of Spec
MaxFeedback == 1       \* UpdateFeedback calls explored per run
MaxWindowAdds == 12    \* AddExchange calls explored per run of SpecWindow
MaxOpsAdds == 3        \* AddExchange calls explored per run of SpecOps and SpecCopy
MaxPromptHistory == 6  \* exchanges passed to AddHistory
MaxChain == 2          \* longest fallback chain passed to SetFallbackChain
MaxLLMAdds == 2        \* AddExchange calls on the backend's store
MaxLockAdds == 2       \* AddExchange calls explored per run of SpecLock
MaxConcurrentAdds == 3 \* AddExchange calls explored per run of SpecConcurrent
MaxSessionAdds == 2    \* AddExchange calls explored per run of SpecSessions
MaxRepeatedFeedback == 2 \* UpdateFeedback calls explored per run of SpecFeedback
MaxRawLen == 5           \* bytes of a model output given to cleanResponse

(***************************************************************************)
(* Inputs.                                                                 *)
(***************************************************************************)
IDs == {"", "a", "b"}                 \* interaction identifiers callers pass
Triggers == {"click"}
Responses == {"hi"}
Engagements == {50}                   \* engagement score in hundredths
MaxHistoryArgs == {0, 1, 2}           \* maxHistory arguments of the constructor
MaxConversationsArgs == {0, 1, 2}     \* maxConversations arguments
RetentionArgs == {1}                  \* retentionPeriod arguments (clock units)
WindowIDs == {"s1"}                   \* the session of the single-session runs
WindowHistoryArgs == {-1, 0, 2}       \* maxHistory arguments of the single-session runs

Names == {"llm", "markov"}             \* backend names
Handles == {"nil", "impl"}            \* a nil handle or a live backend
Confidences == {0, 50, 51, 90}        \* confidence in hundredths
NoContext == [FallbackResponses |-> <<>>, FallbackAnimation |-> ""]
Contexts ==                           \* the fallback part of the DialogContext
    {NoContext,
     [FallbackResponses |-> <<"f1">>, FallbackAnimation |-> "idle"],
     [FallbackResponses |-> <<"f1", "f2">>, FallbackAnimation |-> ""],
     [FallbackResponses |-> <<"f1", "f2", "f3">>, FallbackAnimation |-> "idle"]}
ClockSamples ==                       \* UnixNano() readings, as 16-bit limbs
    {<<6361, 4660, 0, 6>>, <<6361, 4660, 32767, 65535>>,
     <<6361, 4660, 32768, 1>>, <<6361, 4660, 65535, 65534>>}
Closers == {1, 2}                     \* concurrent callers of Close
OpsIDs == {"a", "b"}                  \* sessions of the runs with Close and GetHistory
CopyIDs == {"a"}                      \* the session whose history a caller reads
OpsHistoryArgs == {2}                 \* maxHistory argument of those runs
OpsConversationsArgs == {0}           \* maxConversations argument of those runs (no limit)
OpsLimits == {-1, 0, 1, 2, 3}         \* maxExchanges arguments of GetHistory
OpsCallLimits == {0, 1}               \* those of the calls whose result a caller keeps
Edits == {"edited"}                   \* what a caller writes into a returned slice
MaxTokensArgs == {-1, 0, 10, 24, 25, 30, 100, 1500}   \* arguments of SetMaxTokens
LongTextLen == 450                    \* bytes of a long persona
IntWidths == {32, 64}                 \* int is 32 or 64 bits wide

\* the goroutines that call the store and the backend
Goroutines == {1, 2}
LLMIDs == {"a", "b"}                  \* sessions of the GenerateResponse calls
LockIDs == {"a", "b"}                 \* sessions of the concurrent store calls
LockHistoryArgs == {1}                \* maxHistory argument of the runs of SpecLock
LockConversationsArgs == {1}          \* maxConversations argument of the runs of SpecLock
LockLimits == {0, 1}                  \* maxExchanges arguments of GetHistory
ConcurrentHistoryArgs == {2}          \* maxHistory argument of the runs of SpecConcurrent
ConcurrentConversationsArgs == {0, 1} \* maxConversations arguments of those runs
SessionsConversationsArgs == {0, 1}   \* maxConversations arguments of the runs of SpecSessions
SessionsIDs == {"", "a"}              \* interaction identifiers of those runs
SessionsClosers == {1}                \* the caller of Close in those runs

DefaultText == "Hello!"               \* go.interface.md:218
DefaultAnimation == "talking"         \* go.interface.md:219
FallbackConfidence == 10              \* go.interface.md:234 (0.1)
LLMConfidence == 80                   \* llm_backend.go:422 (0.8)
LLMFallbackConfidence == 30           \* llm_backend.go:655 (0.3)

DefaultMaxHistory == 10               \* context_manager.go:49
DefaultMaxTokens == 1500              \* part_002:22
CharsPerToken == 4                    \* part_002:90
NewlineWindow == 100                  \* part_002:93
DefaultRetention == 24                \* context_manager.go:55 (24h, in hours)

VARIABLES
    conversations,      \* cm.conversations: interactionID -> ConversationHistory
    maxHistory,         \* cm.maxHistory
    maxConversations,   \* cm.maxConversations
    retentionPeriod,    \* cm.retentionPeriod
    now,                \* the clock read by time.Now()
    histArg,            \* the maxHistory argument the store was constructed with
    added,              \* per tracked session: every exchange appended since it was created
    touched,            \* sessions in the order AddExchange last touched them
    onlyAdds,           \* TRUE while AddExchange is the only store operation called so far
    adds,               \* number of AddExchange calls so far
    fbs,                \* number of UpdateFeedback calls so far
    backends,           \* dm.backends: name -> backend handle
    defaultBackend,     \* dm.defaultBackend ("" = none)
    fallbackChain,      \* dm.fallbackChain
    setupErr,           \* error returned by the last SetDefaultBackend / SetFallbackChain
    intBits,            \* width of the build's int type
    pc,                 \* where the running GenerateDialog call stands
    idx,                \* position in the fallback chain being tried
    ctx,                \* the DialogContext of the running call
    dialogResponse,     \* the DialogResponse the call returned
    genErr,             \* the error the call returned
    resultFrom,         \* which return statement of GenerateDialog produced the response
    calls,              \* backend methods invoked by the running call, in order
    sweep,              \* the cleanupOldConversations pass holding cm.mu, if any
    closed,             \* cm.conversations is nil
    tickerStopped,      \* cm.cleanupTicker has been stopped
    storePanic,         \* the runtime panic a store operation ended in ("none" = none)
    closePc,            \* per caller of Close: where its call stands
    returned,           \* the slice the last GetHistory call handed to its caller
    pb,                 \* the PromptBuilder's fields
    built,              \* what Build returned for the builder as it stands
    fromTemplate,       \* a BuildFromTemplate call: its template, result and the
                        \* placeholders its loop has still to visit
    llm,                \* the LLMBackend's fields
    initErr,            \* what the last LLMBackend.Initialize call returned
    llmMu,              \* llm.mu: the goroutines holding its read lock
    gens,               \* per goroutine: where its GenerateResponse call stands
    mu,                 \* cm.mu: the goroutine holding the write lock, those holding
                        \* the read lock
    proc,               \* per goroutine: where its store call stands
    addCalls,           \* per session: AddExchange calls made so far
    ticks,              \* ticks waiting in cm.cleanupTicker.C
    routine,            \* where the cleanupRoutine goroutine stands
    raw,                \* the model output the last cleanResponse call was given
    cleaned             \* what that call made of it

storeVars == <<conversations, maxHistory, maxConversations, retentionPeriod,
               now, histArg, added, touched, onlyAdds, adds, fbs>>

\* what no store operation changes
storeConfig == <<maxHistory, maxConversations, retentionPeriod, histArg>>

genVars == <<backends, defaultBackend, fallbackChain, setupErr, intBits,
             pc, idx, ctx, dialogResponse, genErr, resultFrom, calls>>

\* the dialog manager's configuration
registry == <<backends, defaultBackend, fallbackChain>>

\* the store's lock, lifecycle and the caller's copy
opsVars == <<sweep, closed, tickerStopped, storePanic, closePc, returned>>

\* the prompt builder and its last result
promptVars == <<pb, built, fromTemplate>>

\* the LLM backend and its callers
llmVars == <<llm, initErr, llmMu, gens>>

\* the store's lock and the goroutines calling the store
lockVars == <<mu, proc, addCalls>>

\* the ticker's channel and the goroutine that reads it
routineVars == <<ticks, routine>>

\* the last cleanResponse call
cleanVars == <<raw, cleaned>>

vars == <<storeVars, genVars, opsVars, promptVars, llmVars, lockVars, routineVars, cleanVars>>

Min(a, b) == IF a < b THEN a ELSE b

Max(a, b) == IF a > b THEN a ELSE b

\* s[from..Len(s)], the Go slice expression s[from-1:]
SliceFrom(s, from) == SubSeq(s, from, Len(s))

\* delete(m, key)
MapDelete(m, key) == [k \in DOMAIN m \ {key} |-> m[k]]

\* m[key] = value
MapPut(m, key, value) == [k \in DOMAIN m \cup {key} |-> IF k = key THEN value ELSE m[k]]

\* s without its elements equal to x
RECURSIVE SeqWithout(_, _)
SeqWithout(s, x) ==
    IF s = <<>> THEN <<>>
    ELSE IF Head(s) = x THEN SeqWithout(Tail(s), x)
    ELSE <<Head(s)>> \o SeqWithout(Tail(s), x)

SeqRange(s) == {s[i] : i \in DOMAIN s}

(***************************************************************************)
(* NewContextManagerWithConfig: the argument normalisation.                *)
(***************************************************************************)
NormMaxHistory(arg) == IF arg <= 0 THEN DefaultMaxHistory ELSE arg

NormRetention(arg) == IF arg <= 0 THEN DefaultRetention ELSE arg

NewContextManagerWithConfig(mh, mc, rp) ==
    /\ conversations = <<>>
    /\ maxHistory = NormMaxHistory(mh)
    /\ maxConversations = mc
    /\ retentionPeriod = NormRetention(rp)
    /\ histArg = mh

(***************************************************************************)
(* evictOldestConversation: a linear scan over the map, in the map's       *)
(* unspecified iteration order, keeping the first entry whose LastUpdated  *)
(* is strictly before the best so far.  The scan ends on an entry of       *)
(* minimal LastUpdated; which one, when several tie, depends on the        *)
(* iteration order.  The entry found is deleted only if its key is not "". *)
(***************************************************************************)
OldestCandidates(convs) ==
    {id \in DOMAIN convs :
        \A other \in DOMAIN convs : convs[id].LastUpdated <= convs[other].LastUpdated}

EvictResult(convs, oldestID) == IF oldestID # "" THEN MapDelete(convs, oldestID) ELSE convs

\* the maps evictOldestConversation can leave behind
evictOldestConversation(convs) ==
    IF DOMAIN convs = {} THEN {convs}
    ELSE {EvictResult(convs, oldestID) : oldestID \in OldestCandidates(convs)}

(***************************************************************************)
(* AddExchange(interactionID, trigger, response).                          *)
(***************************************************************************)
NewExchange(ts, trigger, response) ==
    [Timestamp |-> ts, Trigger |-> trigger, Response |-> response,
     UserFeedback |-> FALSE, EngagementScore |-> 0]

NewHistory(interactionID) ==
    [InteractionID |-> interactionID, Exchanges |-> <<>>,
     LastUpdated |-> 0, MaxLength |-> maxHistory]

\* a window that is never trimmed
TrimWindow_NoTrim(exchanges, maxLength) == exchanges

\* a window trimmed at the wrong end
TrimWindow_DropNewest(exchanges, maxLength) ==
    IF Len(exchanges) > maxLength THEN SubSeq(exchanges, 1, Len(exchanges) - 1) ELSE exchanges

\* the rolling window: drop the oldest exchange when the window is exceeded
TrimWindow(exchanges, maxLength) ==
    IF Len(exchanges) > maxLength THEN SliceFrom(exchanges, 2) ELSE exchanges

AppendExchange(history, exchange, updated) ==
    [history EXCEPT !.Exchanges = TrimWindow(Append(history.Exchanges, exchange), history.MaxLength),
                    !.LastUpdated = updated]

\* the store's conversations map is nil after Close: reading it finds nothing,
\* and the assignment cm.conversations[interactionID] = history panics
AddExchangeOnNilMap ==
    /\ storePanic' = "assignment to entry in nil map"
    /\ adds' = adds + 1
    /\ UNCHANGED <<conversations, storeConfig, now, added, touched, onlyAdds, fbs, genVars,
                   sweep, closed, tickerStopped, closePc, returned, promptVars, llmVars, lockVars,
                   routineVars, cleanVars>>

AddExchange(interactionID, trigger, response) ==
    IF closed THEN AddExchangeOnNilMap
    ELSE
    \E updated \in now..Min(now + 1, MaxClock) :
      \E afterEvict \in
            (IF interactionID \notin DOMAIN conversations
                /\ maxConversations > 0
                /\ Cardinality(DOMAIN conversations) >= maxConversations
             THEN evictOldestConversation(conversations)
             ELSE {conversations}) :
        LET exists == interactionID \in DOMAIN conversations
            history == IF exists THEN conversations[interactionID]
                       ELSE NewHistory(interactionID)
            exchange == NewExchange(now, trigger, response)
            gone == DOMAIN conversations \ DOMAIN afterEvict
            keptAdded == [k \in DOMAIN added \ gone |-> added[k]]
        IN  /\ conversations' = MapPut(afterEvict, interactionID,
                                       AppendExchange(history, exchange, updated))
            /\ now' = updated
            /\ added' = MapPut(keptAdded, interactionID,
                               IF exists THEN Append(added[interactionID], exchange)
                               ELSE <<exchange>>)
            /\ touched' = Append(SeqWithout(touched, interactionID), interactionID)
            /\ adds' = adds + 1
            /\ UNCHANGED <<storeConfig, onlyAdds, fbs, genVars, opsVars, promptVars, llmVars, lockVars, routineVars, cleanVars>>

(***************************************************************************)
(* GetHistory(interactionID, maxExchanges): a copy of the most recent      *)
(* maxExchanges exchanges (all of them when maxExchanges <= 0).            *)
(***************************************************************************)
\* the oldest maxExchanges exchanges instead of the most recent
GetHistory_OldestFirst(interactionID, maxExchanges) ==
    IF interactionID \notin DOMAIN conversations THEN <<>>
    ELSE LET exchanges == conversations[interactionID].Exchanges
         IN  IF maxExchanges > 0 /\ Len(exchanges) > maxExchanges
             THEN SubSeq(exchanges, 1, maxExchanges)
             ELSE exchanges

GetHistory(interactionID, maxExchanges) ==
    IF interactionID \notin DOMAIN conversations THEN <<>>
    ELSE LET exchanges == conversations[interactionID].Exchanges
         IN  IF maxExchanges > 0 /\ Len(exchanges) > maxExchanges
             THEN SliceFrom(exchanges, Len(exchanges) - maxExchanges + 1)
             ELSE exchanges

GetActiveConversations == Cardinality(DOMAIN conversations)

(***************************************************************************)
(* UpdateFeedback(interactionID, positive, engagement).                    *)
(***************************************************************************)
\* feedback for an unknown session starts a record for it
UpdateFeedback_CreatesSession(interactionID, positive, engagement) ==
    /\ IF interactionID \notin DOMAIN conversations
       THEN /\ conversations' = MapPut(conversations, interactionID, NewHistory(interactionID))
            /\ UNCHANGED now
       ELSE IF Len(conversations[interactionID].Exchanges) = 0
       THEN UNCHANGED <<conversations, now>>
       ELSE \E updated \in now..Min(now + 1, MaxClock) :
              LET history == conversations[interactionID]
                  lastIdx == Len(history.Exchanges)
              IN  /\ conversations' =
                        [conversations EXCEPT ![interactionID] =
                            [history EXCEPT !.Exchanges[lastIdx].UserFeedback = positive,
                                            !.Exchanges[lastIdx].EngagementScore = engagement,
                                            !.LastUpdated = updated]]
                  /\ now' = updated
    /\ fbs' = fbs + 1
    /\ onlyAdds' = FALSE
    /\ UNCHANGED <<storeConfig, added, touched, adds, genVars, opsVars, promptVars, llmVars, lockVars, routineVars, cleanVars>>

\* feedback recorded on the oldest exchange instead of the most recent
UpdateFeedback_FirstExchange(interactionID, positive, engagement) ==
    /\ IF interactionID \notin DOMAIN conversations
          \/ Len(conversations[interactionID].Exchanges) = 0
       THEN UNCHANGED <<conversations, now>>
       ELSE \E updated \in now..Min(now + 1, MaxClock) :
              LET history == conversations[interactionID]
              IN  /\ conversations' =
                        [conversations EXCEPT ![interactionID] =
                            [history EXCEPT !.Exchanges[1].UserFeedback = positive,
                                            !.Exchanges[1].EngagementScore = engagement,
                                            !.LastUpdated = updated]]
                  /\ now' = updated
    /\ fbs' = fbs + 1
    /\ onlyAdds' = FALSE
    /\ UNCHANGED <<storeConfig, added, touched, adds, genVars, opsVars, promptVars, llmVars, lockVars, routineVars, cleanVars>>

UpdateFeedback(interactionID, positive, engagement) ==
    /\ IF interactionID \notin DOMAIN conversations
          \/ Len(conversations[interactionID].Exchanges) = 0
       THEN UNCHANGED <<conversations, now>>
       ELSE \E updated \in now..Min(now + 1, MaxClock) :
              LET history == conversations[interactionID]
                  lastIdx == Len(history.Exchanges)
              IN  /\ conversations' =
                        [conversations EXCEPT ![interactionID] =
                            [history EXCEPT !.Exchanges[lastIdx].UserFeedback = positive,
                                            !.Exchanges[lastIdx].EngagementScore = engagement,
                                            !.LastUpdated = updated]]
                  /\ now' = updated
    /\ fbs' = fbs + 1
    /\ onlyAdds' = FALSE
    /\ UNCHANGED <<storeConfig, added, touched, adds, genVars, opsVars, promptVars, llmVars, lockVars, routineVars, cleanVars>>

(***************************************************************************)
(* ClearHistory(interactionID).                                            *)
(***************************************************************************)
ClearHistory(interactionID) ==
    /\ conversations' = MapDelete(conversations, interactionID)
    /\ added' = MapDelete(added, interactionID)
    /\ onlyAdds' = FALSE
    /\ UNCHANGED <<storeConfig, now, touched, adds, fbs, genVars, opsVars, promptVars, llmVars, lockVars, routineVars, cleanVars>>

(***************************************************************************)
(* cleanupOldConversations (the sweep): collect the sessions last updated  *)
(* before now - retentionPeriod, then delete them.                         *)
(***************************************************************************)
\* sessions last updated at the cutoff collected as well
StaleSessions_AtCutoff(convs, cutoff) == {id \in DOMAIN convs : convs[id].LastUpdated <= cutoff}

StaleSessions(convs, cutoff) == {id \in DOMAIN convs : convs[id].LastUpdated < cutoff}

cleanupOldConversations ==
    LET cutoff == now - retentionPeriod
        toDelete == StaleSessions(conversations, cutoff)
    IN  /\ conversations' = [k \in DOMAIN conversations \ toDelete |-> conversations[k]]
        /\ added' = [k \in DOMAIN added \ toDelete |-> added[k]]
        /\ onlyAdds' = FALSE
        /\ UNCHANGED <<storeConfig, now, touched, adds, fbs, genVars, opsVars, promptVars, llmVars, lockVars, routineVars, cleanVars>>

(***************************************************************************)
(* Time passes between calls.                                              *)
(***************************************************************************)
Tick ==
    /\ now < MaxClock
    /\ now' = now + 1
    /\ UNCHANGED <<conversations, storeConfig, added, touched, onlyAdds, adds, fbs, genVars, opsVars, promptVars, llmVars, lockVars,
                   routineVars, cleanVars>>

(***************************************************************************)
(* cm.mu.  cleanupOldConversations holds the write lock from its first     *)
(* statement to its return; the pass is written here as its two loops, the *)
(* collection (sweepCollect) and the deletion (sweepDelete), with the lock *)
(* held in between.  Every other operation of the store takes the lock     *)
(* first and so waits for the pass to end.                                 *)
(***************************************************************************)
NoSweep == [active |-> FALSE, cutoff |-> 0, toDelete |-> {}]

\* a lock that is never waited for
TryLock_Unguarded(held) == TRUE

\* cm.mu.Lock() / cm.mu.RLock() go through when no writer holds the lock
TryLock(held) == ~held

sweepCollect ==
    /\ TryLock(sweep.active)
    /\ LET cutoff == now - retentionPeriod
       IN  sweep' = [active |-> TRUE, cutoff |-> cutoff,
                     toDelete |-> StaleSessions(conversations, cutoff)]
    /\ UNCHANGED <<storeVars, genVars, closed, tickerStopped, storePanic, closePc, returned, promptVars, llmVars, lockVars,
                   routineVars, cleanVars>>

sweepDelete ==
    /\ sweep.active
    /\ conversations' = [k \in DOMAIN conversations \ sweep.toDelete |-> conversations[k]]
    /\ added' = [k \in DOMAIN added \ sweep.toDelete |-> added[k]]
    /\ onlyAdds' = FALSE
    /\ sweep' = NoSweep
    /\ UNCHANGED <<storeConfig, now, touched, adds, fbs, genVars,
                   closed, tickerStopped, storePanic, closePc, returned, promptVars, llmVars, lockVars,
                   routineVars, cleanVars>>

(***************************************************************************)
(* Close: stop the ticker, then, under the lock, set the map to nil.       *)
(***************************************************************************)
\* a second Stop that restarts the ticker
StopTicker_Toggle(stopped) == ~stopped

\* time.Ticker.Stop: the ticker is stopped, whether or not it was before
StopTicker(stopped) == TRUE

CloseStopTicker(caller) ==
    /\ closePc[caller] = "idle"
    /\ tickerStopped' = StopTicker(tickerStopped)
    /\ closePc' = [closePc EXCEPT ![caller] = "stopped"]
    /\ UNCHANGED <<storeVars, genVars, sweep, closed, storePanic, returned, promptVars, llmVars, lockVars,
                   routineVars, cleanVars>>

CloseReleaseMap(caller) ==
    /\ closePc[caller] = "stopped"
    /\ TryLock(sweep.active)
    /\ conversations' = <<>>
    /\ closed' = TRUE
    /\ added' = <<>>
    /\ onlyAdds' = FALSE
    /\ closePc' = [closePc EXCEPT ![caller] = "idle"]
    /\ UNCHANGED <<storeConfig, now, touched, adds, fbs, genVars,
                   sweep, tickerStopped, storePanic, returned, promptVars, llmVars, lockVars,
                   routineVars, cleanVars>>

(***************************************************************************)
(* A GetHistory call and what its caller holds afterwards.  The result is  *)
(* a slice: its contents, and whether it shares its backing array with the *)
(* store's Exchanges.                                                      *)
(***************************************************************************)
NoReturned ==
    [valid |-> FALSE, interactionID |-> "", maxExchanges |-> 0,
     exchanges |-> <<>>, shared |-> FALSE, edited |-> FALSE]

\* the window handed out as it is, without the copy
CopyOf_Alias(exchanges) == [exchanges |-> exchanges, shared |-> Len(exchanges) > 0]

\* result := make([]ConversationExchange, len(exchanges)); copy(result, exchanges)
CopyOf(exchanges) == [exchanges |-> exchanges, shared |-> FALSE]

GetHistoryCall(interactionID, maxExchanges) ==
    /\ TryLock(sweep.active)
    /\ LET result == CopyOf(GetHistory(interactionID, maxExchanges))
       IN  returned' = [valid |-> TRUE, interactionID |-> interactionID,
                        maxExchanges |-> maxExchanges, exchanges |-> result.exchanges,
                        shared |-> result.shared, edited |-> FALSE]
    /\ UNCHANGED <<storeVars, genVars, sweep, closed, tickerStopped, storePanic, closePc, promptVars, llmVars, lockVars,
                   routineVars, cleanVars>>

\* the store's exchanges of a session after a write of text into the
\* Response of the i-th of the last n of them
WriteShared(exchanges, n, i, text) ==
    [exchanges EXCEPT ![Len(exchanges) - n + i].Response = text]

\* the caller overwrites the Response of one exchange of the slice it was
\* given; the store sees the write only through a shared backing array
ModifyReturned(i, text) ==
    /\ returned.valid
    /\ ~returned.edited
    /\ i \in DOMAIN returned.exchanges
    /\ returned' = [returned EXCEPT !.exchanges[i].Response = text, !.edited = TRUE]
    /\ LET id == returned.interactionID
           n == Len(returned.exchanges)
       IN  IF /\ returned.shared
              /\ id \in DOMAIN conversations
              /\ Len(conversations[id].Exchanges) >= n
              /\ SliceFrom(conversations[id].Exchanges,
                           Len(conversations[id].Exchanges) - n + 1) = returned.exchanges
           THEN conversations' =
                    [conversations EXCEPT ![id].Exchanges =
                        WriteShared(conversations[id].Exchanges, n, i, text)]
           ELSE UNCHANGED conversations
    /\ UNCHANGED <<storeConfig, now, added, touched, onlyAdds, adds, fbs, genVars,
                   sweep, closed, tickerStopped, storePanic, closePc, promptVars, llmVars, lockVars,
                   routineVars, cleanVars>>

(***************************************************************************)
(* GetConversationSummary / calculateSummary.  AvgEngagement is the        *)
(* quotient total / count, kept as the pair <<total, count>>; the          *)
(* DominantTriggers are collected in map iteration order, kept as a set.   *)
(***************************************************************************)
ZeroTime == -1

ZeroSummary ==
    [ExchangeCount |-> 0, AvgEngagement |-> <<0, 1>>, PositiveFeedback |-> 0,
     LastInteraction |-> ZeroTime, DominantTriggers |-> {}, RecentTopics |-> {}]

RECURSIVE SumEngagement(_)
SumEngagement(exchanges) ==
    IF exchanges = <<>> THEN 0
    ELSE Head(exchanges).EngagementScore + SumEngagement(Tail(exchanges))

calculateSummary(history) ==
    LET exchanges == history.Exchanges
        positions == DOMAIN exchanges
    IN  IF Len(exchanges) = 0 THEN ZeroSummary
        ELSE [ExchangeCount |-> Len(exchanges),
              AvgEngagement |-> <<SumEngagement(exchanges), Len(exchanges)>>,
              PositiveFeedback |-> Cardinality({i \in positions : exchanges[i].UserFeedback}),
              LastInteraction |-> history.LastUpdated,
              DominantTriggers |->
                  {t \in {exchanges[i].Trigger : i \in positions} :
                      Cardinality({i \in positions : exchanges[i].Trigger = t}) >= 2},
              RecentTopics |-> {}]

GetConversationSummary(interactionID) ==
    IF interactionID \notin DOMAIN conversations THEN ZeroSummary
    ELSE calculateSummary(conversations[interactionID])

(***************************************************************************)
(* PromptBuilder.  A Go string is a sequence of bytes; a byte is written   *)
(* by its class: "a" an ASCII byte that is none of the following, " " a    *)
(* space, "." one of . ! ?, "\n" a newline, "L" the lead byte and "T" a    *)
(* continuation byte of a three-byte character.  The literal texts of      *)
(* Build are given word by word, by the lengths of their words.            *)
(***************************************************************************)
Ascii(n) == [i \in 1..n |-> "a"]

NL == <<"\n">>

Sp == <<" ">>

\* a sentence-ending punctuation mark: one of . ! ?
Dot == <<".">>

\* a line of n ASCII bytes and its newline
Line(n) == Ascii(n) \o NL

\* the arrow of the history lines, U+2192, three bytes
Arrow == <<"L", "T", "T">>

RECURSIVE Concat(_)
Concat(parts) == IF parts = <<>> THEN <<>> ELSE Head(parts) \o Concat(Tail(parts))

\* words of the given lengths with one space between them
RECURSIVE Words(_)
Words(lens) ==
    IF lens = <<>> THEN <<>>
    ELSE IF Len(lens) = 1 THEN Ascii(lens[1])
    ELSE Ascii(Head(lens)) \o Sp \o Words(Tail(lens))

\* strings.Repeat(s, n)
RECURSIVE Repeat(_, _)
Repeat(s, n) == IF n <= 0 THEN <<>> ELSE s \o Repeat(s, n - 1)

\* the inputs: no system prompt, or "System instructions here"
SystemPrompts == {<<>>, Words(<<6, 12, 4>>)}

\* no persona, "cheerful", and long ones: one unbroken ASCII word, three-byte
\* characters only, short sentences ("very long. "), and the phrase
\* "very very long personality description " over and over
Personalities ==
    {<<>>,
     Ascii(8),
     Ascii(LongTextLen),
     Repeat(Arrow, LongTextLen \div 3),
     Repeat(Words(<<4, 4>>) \o Dot \o Sp, LongTextLen \div 11),
     Repeat(Words(<<4, 4, 4, 11, 11>>) \o Sp, LongTextLen \div 39)}

\* an exchange "just now", trigger "click", response "hi"
PromptExchange == [ago |-> Words(<<4, 3>>), Trigger |-> Ascii(5), Response |-> Ascii(2)]

PromptHistories == {[i \in 1..n |-> PromptExchange] : n \in 0..MaxPromptHistory}

\* a context: a trigger, a mood and a time of day; the other fields of the
\* DialogContext are left at their zero values
PromptContexts ==
    [Trigger : {"click", "wave"}, CurrentMood : {0, 75}, TimeOfDay : {<<>>, Ascii(7)}]

ZeroPromptContext == [Trigger |-> "", CurrentMood |-> 0, TimeOfDay |-> <<>>]

NotBuilt == [valid |-> FALSE, panic |-> FALSE, prompt |-> <<>>]

\* no BuildFromTemplate call has been made
NoTemplate == [pc |-> "idle", template |-> <<>>, result |-> <<>>, replacements |-> {}]

NewPromptBuilder ==
    /\ pb = [systemPrompt |-> <<>>, personality |-> <<>>, history |-> <<>>,
             context |-> ZeroPromptContext, maxTokens |-> DefaultMaxTokens]
    /\ built = NotBuilt
    /\ fromTemplate = NoTemplate

SetField(field, value) ==
    /\ pb' = [pb EXCEPT ![field] = value]
    /\ built' = NotBuilt
    /\ fromTemplate' = NoTemplate
    /\ UNCHANGED <<storeVars, genVars, opsVars, llmVars, lockVars, routineVars, cleanVars>>

AddSystemPrompt(prompt) == SetField("systemPrompt", prompt)

AddPersonality(personality) == SetField("personality", personality)

AddHistory(history) == SetField("history", history)

AddContext(context) == SetField("context", context)

SetMaxTokens(maxTokens) == SetField("maxTokens", maxTokens)

\* describeMood: "very happy", "happy", "neutral", "sad", "very sad"
describeMood(mood) ==
    IF mood >= 80 THEN Words(<<4, 5>>)
    ELSE IF mood >= 60 THEN Ascii(5)
    ELSE IF mood >= 40 THEN Ascii(7)
    ELSE IF mood >= 20 THEN Ascii(3)
    ELSE Words(<<4, 3>>)

\* describeTrigger: "clicked on you" for "click", an unknown trigger as it is
describeTrigger(trigger) ==
    IF trigger = "click" THEN Words(<<7, 2, 3>>)
    ELSE IF trigger = "wave" THEN Ascii(4)
    ELSE <<>>

\* fmt.Sprintf("%.1f", mood) of a whole mood: "0.0", "75.0", "100.0"
FormatMood(mood) ==
    Concat(<<Ascii(IF mood >= 100 THEN 3 ELSE IF mood >= 10 THEN 2 ELSE 1), Dot, Ascii(1)>>)

\* "- Mood: %s (%.1f/100)\n"
addMoodInfo(context) ==
    IF context.CurrentMood > 0
    THEN Concat(<<Words(<<1, 5>>), Sp, describeMood(context.CurrentMood), Sp, Ascii(1),
                  FormatMood(context.CurrentMood), Ascii(5), NL>>)
    ELSE <<>>

\* "- Time of day: %s\n"
addTimeInfo(context) ==
    IF context.TimeOfDay # <<>>
    THEN Concat(<<Words(<<1, 4, 2, 4>>), Sp, context.TimeOfDay, NL>>)
    ELSE <<>>

\* "Current character state:\n", the lines of the fields that are set, "\n"
buildCharacterState(builder) ==
    Concat(<<Words(<<7, 9, 6>>), NL, addMoodInfo(builder.context),
             addTimeInfo(builder.context), NL>>)

\* "- %s (%s): User %s -> You said: \"%s\"\n"
HistoryLine(exchange) ==
    Concat(<<Ascii(1), Sp, exchange.ago, Sp, Ascii(1), exchange.Trigger, Words(<<2, 4>>), Sp,
             exchange.Trigger, Sp, Arrow, Sp, Words(<<3, 5, 1>>), exchange.Response,
             Ascii(1), NL>>)

\* "Recent conversation:\n", a line for each of the last five exchanges, "\n"
buildConversationHistory(builder) ==
    IF Len(builder.history) = 0 THEN <<>>
    ELSE LET start == IF Len(builder.history) > 5 THEN Len(builder.history) - 5 ELSE 0
             shown == SliceFrom(builder.history, start + 1)
         IN  Concat(<<Words(<<6, 13>>), NL,
                      Concat([i \in DOMAIN shown |-> HistoryLine(shown[i])]), NL>>)

\* "Current situation:\n- The user just performed: %s\n\n"
buildCurrentSituation(builder) ==
    Concat(<<Words(<<7, 10>>), NL, Words(<<1, 3, 4, 4, 10>>), Sp,
             describeTrigger(builder.context.Trigger), NL, NL>>)

\* the response guidelines: a heading, six items, an empty line and
\* "Your response:"
buildResponseInstructions ==
    Concat(<<Words(<<8, 11>>), NL,
             Words(<<1, 4, 9, 5, 3, 7, 4, 9, 8>>), NL,
             Words(<<1, 5, 4, 11, 3, 7, 4>>), NL,
             Words(<<1, 7, 13, 2, 3, 6, 6>>), NL,
             Words(<<1, 3, 7, 14, 8>>), NL,
             Words(<<1, 7, 2, 5, 2, 2, 4, 9>>), NL,
             Words(<<1, 4, 2, 9, 2, 1, 7, 3>>), NL,
             NL,
             Words(<<4, 9>>)>>)

\* what Build writes before it looks at the length
Assemble(builder) ==
    Concat(<<IF builder.systemPrompt # <<>> THEN builder.systemPrompt \o NL \o NL ELSE <<>>,
             IF builder.personality # <<>>
             THEN Concat(<<Words(<<3, 3, 1, 7, 3, 9, 4, 3, 9, 12>>), Sp, builder.personality, NL>>)
             ELSE Concat(<<Words(<<3, 3, 1, 8, 7, 3, 9>>), Dot, NL>>),
             buildCharacterState(builder),
             buildConversationHistory(builder),
             buildCurrentSituation(builder),
             buildResponseInstructions>>)

\* strings.LastIndex(s, "\n"): the 0-based index of the last newline, or -1
LastIndexNewline(s) ==
    LET at == {i \in DOMAIN s : s[i] = "\n"}
    IN  IF at = {} THEN -1 ELSE (CHOOSE i \in at : \A j \in at : j <= i) - 1

\* s[:n]: the first n bytes, or a panic when n is outside 0..len(s)
SlicePrefix(s, n) ==
    IF n < 0 \/ n > Len(s) THEN [valid |-> TRUE, panic |-> TRUE, prompt |-> <<>>]
    ELSE [valid |-> TRUE, panic |-> FALSE, prompt |-> SubSeq(s, 1, n)]

\* the truncation at the end of Build
Truncate(result, maxTokens) ==
    LET limit == maxTokens * CharsPerToken
    IN  IF Len(result) > limit
        THEN LET cut == SlicePrefix(result, limit)
             IN  IF cut.panic THEN cut
                 ELSE LET lastNewline == LastIndexNewline(cut.prompt)
                      IN  IF lastNewline > Len(cut.prompt) - NewlineWindow
                          THEN SlicePrefix(cut.prompt, lastNewline)
                          ELSE cut
        ELSE [valid |-> TRUE, panic |-> FALSE, prompt |-> result]

Build ==
    /\ built' = Truncate(Assemble(pb), pb.maxTokens)
    /\ UNCHANGED <<pb, fromTemplate, storeVars, genVars, opsVars, llmVars, lockVars, routineVars, cleanVars>>

(***************************************************************************)
(* BuildFromTemplate.  A template and the values are texts in which a      *)
(* placeholder, braces included, is one element ("{trigger}"); the other   *)
(* elements are bytes, none of them a brace.                               *)
(***************************************************************************)
Placeholders ==
    {"{personality}", "{systemPrompt}", "{characterState}", "{conversationHistory}",
     "{currentSituation}", "{responseInstructions}", "{trigger}", "{mood}",
     "{timeOfDay}", "{relationshipLevel}"}

\* the bytes of a trigger name
TriggerText(trigger) ==
    IF trigger = "click" THEN Ascii(5)
    ELSE IF trigger = "wave" THEN Ascii(4)
    ELSE <<>>

\* the replacements map of BuildFromTemplate
Replacements(builder) ==
    [placeholder \in Placeholders |->
        CASE placeholder = "{personality}" -> builder.personality
          [] placeholder = "{systemPrompt}" -> builder.systemPrompt
          [] placeholder = "{characterState}" -> buildCharacterState(builder)
          [] placeholder = "{conversationHistory}" -> buildConversationHistory(builder)
          [] placeholder = "{currentSituation}" -> buildCurrentSituation(builder)
          [] placeholder = "{responseInstructions}" -> buildResponseInstructions
          [] placeholder = "{trigger}" -> TriggerText(builder.context.Trigger)
          [] placeholder = "{mood}" -> FormatMood(builder.context.CurrentMood)
          [] placeholder = "{timeOfDay}" -> builder.context.TimeOfDay
          [] placeholder = "{relationshipLevel}" -> <<>>]

\* strings.Replace(s, old, new, n) for a placeholder old: the first n
\* occurrences, all of them when n < 0
RECURSIVE Replace(_, _, _, _)
Replace(s, old, new, n) ==
    LET at == {i \in DOMAIN s : s[i] = old}
    IN  IF n = 0 \/ at = {} THEN s
        ELSE LET first == CHOOSE i \in at : \A j \in at : i <= j
             IN  SubSeq(s, 1, first - 1) \o new
                     \o Replace(SubSeq(s, first + 1, Len(s)), old, new, n - 1)

\* only the first occurrence
ReplaceFirst(s, old, new) == Replace(s, old, new, 1)

\* strings.ReplaceAll(s, old, new)
ReplaceAll(s, old, new) == Replace(s, old, new, -1)

\* BuildFromTemplate up to its loop: result := template, the map is built
BuildFromTemplate(template) ==
    /\ fromTemplate.pc # "replacing"
    /\ fromTemplate' = [pc |-> "replacing", template |-> template, result |-> template,
                        replacements |-> Placeholders]
    /\ UNCHANGED <<pb, built, storeVars, genVars, opsVars, llmVars, lockVars, routineVars, cleanVars>>

\* one iteration of the loop over the map, which Go visits in any order
ReplaceNext ==
    /\ fromTemplate.pc = "replacing"
    /\ \E placeholder \in fromTemplate.replacements :
          fromTemplate' =
              [fromTemplate EXCEPT
                  !.result = ReplaceAll(@, placeholder, Replacements(pb)[placeholder]),
                  !.replacements = @ \ {placeholder}]
    /\ UNCHANGED <<pb, built, storeVars, genVars, opsVars, llmVars, lockVars, routineVars, cleanVars>>

\* return result
ReturnFromTemplate ==
    /\ fromTemplate.pc = "replacing"
    /\ fromTemplate.replacements = {}
    /\ fromTemplate' = [fromTemplate EXCEPT !.pc = "done"]
    /\ UNCHANGED <<pb, built, storeVars, genVars, opsVars, llmVars, lockVars, routineVars, cleanVars>>

(***************************************************************************)
(* The dialog manager.  Backends are external: a registered handle is      *)
(* either nil or a live backend whose CanHandle and GenerateResponse       *)
(* answers are chosen by the backend at each invocation.                   *)
(***************************************************************************)
NoResponse == [Text |-> "", Animation |-> "", Confidence |-> 0, ResponseType |-> ""]

\* what a live backend's GenerateResponse can return: an error, a response
\* of some confidence, or the backend's own low-confidence fallback
BackendResponses(name) ==
    {[Text |-> name, Animation |-> "talking", Confidence |-> c, ResponseType |-> "casual"] :
        c \in Confidences}
    \cup {[Text |-> name, Animation |-> "talking", Confidence |-> 30, ResponseType |-> "fallback"]}

(***************************************************************************)
(* LLMBackend.GenerateResponse: the model generation succeeds, fails or    *)
(* times out (generateWithTimeout); a failure and a timeout take the same  *)
(* branch, which returns the backend's own fallback response when          *)
(* fallbackEnabled is set and an error otherwise.                          *)
(***************************************************************************)
GenResults == {"ok", "error", "timeout"}

LLMSuccessResponse(name) ==
    [Text |-> name, Animation |-> "talking", Confidence |-> LLMConfidence,
     ResponseType |-> "casual"]

LLMFallbackResponse(name) ==
    [Text |-> name, Animation |-> "talking", Confidence |-> LLMFallbackConfidence,
     ResponseType |-> "fallback"]

\* a timeout mistaken for a success
LLMGenerateResponse_TimeoutAsSuccess(name, fallbackEnabled, gen) ==
    IF gen \in {"ok", "timeout"}
    THEN [err |-> FALSE, resp |-> LLMSuccessResponse(name), gen |-> gen,
          fallbackEnabled |-> fallbackEnabled]
    ELSE IF fallbackEnabled
    THEN [err |-> FALSE, resp |-> LLMFallbackResponse(name), gen |-> gen,
          fallbackEnabled |-> fallbackEnabled]
    ELSE [err |-> TRUE, resp |-> NoResponse, gen |-> gen, fallbackEnabled |-> fallbackEnabled]

LLMGenerateResponse(name, fallbackEnabled, gen) ==
    IF gen = "ok"
    THEN [err |-> FALSE, resp |-> LLMSuccessResponse(name), gen |-> gen,
          fallbackEnabled |-> fallbackEnabled]
    ELSE IF fallbackEnabled
    THEN [err |-> FALSE, resp |-> LLMFallbackResponse(name), gen |-> gen,
          fallbackEnabled |-> fallbackEnabled]
    ELSE [err |-> TRUE, resp |-> NoResponse, gen |-> gen, fallbackEnabled |-> fallbackEnabled]

\* the outcomes of GenerateResponse: those of an LLMBackend, and those of
\* any other backend (an error, or a response of some confidence)
BackendOutcomes(name) ==
    {[err |-> TRUE, resp |-> NoResponse, gen |-> "error", fallbackEnabled |-> FALSE]}
    \cup {[err |-> FALSE, resp |-> r, gen |-> "ok", fallbackEnabled |-> FALSE] :
            r \in BackendResponses(name)}
    \cup {LLMGenerateResponse(name, fe, gen) : fe \in BOOLEAN, gen \in GenResults}

NewDialogManager ==
    /\ backends = <<>>
    /\ defaultBackend = ""
    /\ fallbackChain = <<>>
    /\ setupErr = "nil"
    /\ pc = "idle"
    /\ idx = 0
    /\ ctx = NoContext
    /\ dialogResponse = NoResponse
    /\ genErr = "unset"
    /\ resultFrom = "none"
    /\ calls = <<>>

callState == <<pc, idx, ctx, dialogResponse, genErr, resultFrom, calls>>

RegisterBackend(name, backend) ==
    /\ pc = "idle"
    /\ backends' = MapPut(backends, name, backend)
    /\ UNCHANGED <<defaultBackend, fallbackChain, setupErr, intBits, callState, storeVars, opsVars, promptVars, llmVars, lockVars,
                   routineVars, cleanVars>>

SetDefaultBackend(name) ==
    /\ pc = "idle"
    /\ IF name \notin DOMAIN backends
       THEN /\ setupErr' = "notRegistered"
            /\ UNCHANGED defaultBackend
       ELSE /\ defaultBackend' = name
            /\ setupErr' = "nil"
    /\ UNCHANGED <<backends, fallbackChain, intBits, callState, storeVars, opsVars, promptVars, llmVars, lockVars,
                   routineVars, cleanVars>>

\* the chain filled name by name, up to the first unregistered one
SetFallbackChain_Partial(names) ==
    /\ pc = "idle"
    /\ LET unknown == {i \in DOMAIN names : names[i] \notin DOMAIN backends}
       IN  IF unknown # {}
           THEN /\ setupErr' = "notRegistered"
                /\ fallbackChain' =
                       SubSeq(names, 1, (CHOOSE i \in unknown : \A j \in unknown : i <= j) - 1)
           ELSE /\ fallbackChain' = names
                /\ setupErr' = "nil"
    /\ UNCHANGED <<backends, defaultBackend, intBits, callState, storeVars, opsVars, promptVars, llmVars, lockVars,
                   routineVars, cleanVars>>

SetFallbackChain(names) ==
    /\ pc = "idle"
    /\ IF \E i \in DOMAIN names : names[i] \notin DOMAIN backends
       THEN /\ setupErr' = "notRegistered"
            /\ UNCHANGED fallbackChain
       ELSE /\ fallbackChain' = names
            /\ setupErr' = "nil"
    /\ UNCHANGED <<backends, defaultBackend, intBits, callState, storeVars, opsVars, promptVars, llmVars, lockVars,
                   routineVars, cleanVars>>

\* GenerateDialog is entered with a context
GenerateDialog(context) ==
    /\ pc = "idle"
    /\ pc' = "TryDefault"
    /\ ctx' = context
    /\ idx' = 0
    /\ dialogResponse' = NoResponse
    /\ genErr' = "unset"
    /\ resultFrom' = "none"
    /\ calls' = <<>>
    /\ UNCHANGED <<registry, setupErr, intBits, storeVars, opsVars, promptVars, llmVars, lockVars, routineVars, cleanVars>>

\* the handle is registered; the nil check left out
Usable_NoNilCheck(name) == name \in DOMAIN backends

\* the handle is registered and not nil
Usable(name) == name \in DOMAIN backends /\ backends[name] # "nil"

Call(stage, pos, name, method, result) ==
    [stage |-> stage, pos |-> pos, name |-> name, method |-> method, result |-> result]

\* the default backend's answer is accepted: no error and confidence above 0.5
AcceptDefault_AtThreshold(outcome) == ~outcome.err /\ outcome.resp.Confidence >= 50

AcceptDefault(outcome) == ~outcome.err /\ outcome.resp.Confidence > 50

\* a fallback backend's answer is accepted: no error
AcceptFallback_Gated(outcome) == ~outcome.err /\ outcome.resp.Confidence > 50

AcceptFallback(outcome) == ~outcome.err

\* where GenerateDialog goes after tryDefaultBackend
AfterDefault_NoShortCircuit(success) ==
    IF Len(fallbackChain) = 0 THEN (IF success THEN "Done" ELSE "StaticFallback")
    ELSE "TryFallback"

AfterDefault(success) ==
    IF success THEN "Done"
    ELSE IF Len(fallbackChain) = 0 THEN "StaticFallback" ELSE "TryFallback"

\* where tryFallbackChain goes after tryFallbackBackend at position i
AfterFallback(success, i) ==
    IF success THEN "Done"
    ELSE IF i >= Len(fallbackChain) THEN "StaticFallback" ELSE "TryFallback"

Returned(resp, from) ==
    /\ dialogResponse' = resp
    /\ genErr' = "nil"
    /\ resultFrom' = from

tryDefaultBackend ==
    /\ pc = "TryDefault"
    /\ IF defaultBackend = "" \/ ~Usable(defaultBackend)
       THEN /\ pc' = AfterDefault(FALSE)
            /\ UNCHANGED <<dialogResponse, genErr, resultFrom, calls>>
       ELSE IF backends[defaultBackend] = "nil"
       THEN \* backend.CanHandle on a nil interface value: nil pointer dereference
            /\ calls' = Append(calls, Call("default", 0, defaultBackend, "CanHandle", FALSE))
            /\ pc' = "NilDereference"
            /\ UNCHANGED <<dialogResponse, genErr, resultFrom>>
       ELSE \E can \in BOOLEAN :
              LET asked == Append(calls, Call("default", 0, defaultBackend, "CanHandle", can))
              IN  IF ~can
                  THEN /\ calls' = asked
                       /\ pc' = AfterDefault(FALSE)
                       /\ UNCHANGED <<dialogResponse, genErr, resultFrom>>
                  ELSE \E outcome \in BackendOutcomes(defaultBackend) :
                         /\ calls' = Append(asked, Call("default", 0, defaultBackend,
                                                        "GenerateResponse", outcome))
                         /\ pc' = AfterDefault(AcceptDefault(outcome))
                         /\ IF AcceptDefault(outcome)
                            THEN Returned(outcome.resp, "default")
                            ELSE UNCHANGED <<dialogResponse, genErr, resultFrom>>
    /\ idx' = 1
    /\ UNCHANGED <<registry, setupErr, intBits, ctx, storeVars, opsVars, promptVars, llmVars, lockVars, routineVars, cleanVars>>

\* one iteration of tryFallbackChain's loop: tryFallbackBackend(fallbackChain[idx])
tryFallbackBackend ==
    /\ pc = "TryFallback"
    /\ idx \in DOMAIN fallbackChain
    /\ LET backendName == fallbackChain[idx]
       IN  IF ~Usable(backendName)
           THEN /\ pc' = AfterFallback(FALSE, idx)
                /\ UNCHANGED <<dialogResponse, genErr, resultFrom, calls>>
           ELSE IF backends[backendName] = "nil"
           THEN \* backend.CanHandle on a nil interface value: nil pointer dereference
                /\ calls' = Append(calls, Call("chain", idx, backendName, "CanHandle", FALSE))
                /\ pc' = "NilDereference"
                /\ UNCHANGED <<dialogResponse, genErr, resultFrom>>
           ELSE \E can \in BOOLEAN :
                  LET asked == Append(calls, Call("chain", idx, backendName, "CanHandle", can))
                  IN  IF ~can
                      THEN /\ calls' = asked
                           /\ pc' = AfterFallback(FALSE, idx)
                           /\ UNCHANGED <<dialogResponse, genErr, resultFrom>>
                      ELSE \E outcome \in BackendOutcomes(backendName) :
                             /\ calls' = Append(asked, Call("chain", idx, backendName,
                                                            "GenerateResponse", outcome))
                             /\ pc' = AfterFallback(AcceptFallback(outcome), idx)
                             /\ IF AcceptFallback(outcome)
                                THEN Returned(outcome.resp, "chain")
                                ELSE UNCHANGED <<dialogResponse, genErr, resultFrom>>
    /\ idx' = idx + 1
    /\ UNCHANGED <<registry, setupErr, intBits, ctx, storeVars, opsVars, promptVars, llmVars, lockVars, routineVars, cleanVars>>

(***************************************************************************)
(* createFallbackResponse picks FallbackResponses[int(UnixNano()) % len].  *)
(* UnixNano() is an int64, written here as four 16-bit limbs, most         *)
(* significant first; int(...) keeps it on a 64-bit build and keeps its    *)
(* low 32 bits, as a signed value, on a 32-bit build.                      *)
(***************************************************************************)
Limb == 65536

\* Go's %: the remainder of the truncated division, with the sign of a
GoRem(a, b) ==
    IF a >= 0 THEN a % b
    ELSE LET m == a % b IN IF m = 0 THEN 0 ELSE m - b

\* int32(nanos): the low two limbs as a signed 32-bit value
ToInt32(nanos) ==
    IF nanos[3] >= Limb \div 2 THEN (nanos[3] - Limb) * Limb + nanos[4]
    ELSE nanos[3] * Limb + nanos[4]

\* nanos % n for a non-negative int64 nanos
Rem64(nanos, n) ==
    ((((((nanos[1] % n) * Limb + nanos[2]) % n) * Limb + nanos[3]) % n) * Limb + nanos[4]) % n

\* int(time.Now().UnixNano()) % n on a build whose int has the given width
FallbackIndex(nanos, n, bits) ==
    IF bits = 32 THEN GoRem(ToInt32(nanos), n) ELSE Rem64(nanos, n)

\* the animation ignored
FallbackAnimationOf_Ignored(context) == DefaultAnimation

FallbackAnimationOf(context) ==
    IF context.FallbackAnimation # "" THEN context.FallbackAnimation ELSE DefaultAnimation

\* the default text whatever the context supplies
FallbackResponse_DefaultText(text, context) ==
    [Text |-> DefaultText, Animation |-> FallbackAnimationOf(context),
     Confidence |-> FallbackConfidence, ResponseType |-> "fallback"]

FallbackResponse(text, context) ==
    [Text |-> text, Animation |-> FallbackAnimationOf(context),
     Confidence |-> FallbackConfidence, ResponseType |-> "fallback"]

createFallbackResponse ==
    /\ pc = "StaticFallback"
    /\ IF Len(ctx.FallbackResponses) > 0
       THEN \E nanos \in ClockSamples :
              LET index == FallbackIndex(nanos, Len(ctx.FallbackResponses), intBits)
              IN  IF index \in 0..(Len(ctx.FallbackResponses) - 1)
                  THEN /\ Returned(FallbackResponse(ctx.FallbackResponses[index + 1], ctx), "static")
                       /\ pc' = "Done"
                  ELSE \* index out of range: the runtime panics
                       /\ pc' = "Panicked"
                       /\ UNCHANGED <<dialogResponse, genErr, resultFrom>>
       ELSE /\ Returned(FallbackResponse(DefaultText, ctx), "static")
            /\ pc' = "Done"
    /\ UNCHANGED <<registry, setupErr, intBits, idx, ctx, calls, storeVars, opsVars, promptVars, llmVars, lockVars,
                   routineVars, cleanVars>>

\* the caller takes the response; the manager is ready for the next call
ReturnDialog ==
    /\ pc = "Done"
    /\ pc' = "idle"
    /\ idx' = 0
    /\ ctx' = NoContext
    /\ dialogResponse' = NoResponse
    /\ genErr' = "unset"
    /\ resultFrom' = "none"
    /\ calls' = <<>>
    /\ UNCHANGED <<registry, setupErr, intBits, storeVars, opsVars, promptVars, llmVars, lockVars, routineVars, cleanVars>>

(***************************************************************************)
(* UpdateBackendMemory ranges over the dm.backends map, whose iteration    *)
(* order Go chooses afresh for every range statement: order is that order, *)
(* able the set of backends whose CanHandle answers true, failed whether   *)
(* the UpdateMemory call returns an error.                                 *)
(***************************************************************************)
Orders(S) == {order \in [1..Cardinality(S) -> S] : \A s \in S : \E i \in DOMAIN order : order[i] = s}

\* the position at which the loop stops: the first backend that is a nil
\* handle or can handle the context; 0 when the loop runs to its end
MemoryStop(order, able) ==
    LET stops == {i \in DOMAIN order : backends[order[i]] = "nil" \/ order[i] \in able}
    IN  IF stops = {} THEN 0 ELSE CHOOSE i \in stops : \A j \in stops : i <= j

\* the backend whose UpdateMemory is called; "" when none is
MemoryTarget(order, able) ==
    LET stop == MemoryStop(order, able)
    IN  IF stop = 0 \/ backends[order[stop]] = "nil" THEN "" ELSE order[stop]

UpdateBackendMemory(order, able, failed) ==
    /\ pc = "idle"
    /\ LET stop == MemoryStop(order, able)
           last == IF stop = 0 THEN Len(order) ELSE stop
           asked == [i \in 1..last |-> Call("memory", i, order[i], "CanHandle", order[i] \in able)]
       IN  IF stop # 0 /\ backends[order[stop]] = "nil"
           THEN \* backend.CanHandle on a nil interface value: nil pointer dereference
                /\ calls' = asked
                /\ pc' = "NilDereference"
           ELSE IF stop # 0
           THEN \* _ = backend.UpdateMemory(...); break
                /\ calls' = Append(asked, Call("memory", stop, order[stop], "UpdateMemory", failed))
                /\ pc' = "idle"
           ELSE /\ calls' = asked
                /\ pc' = "idle"
    /\ UNCHANGED <<idx, ctx, dialogResponse, genErr, resultFrom>>
    /\ UNCHANGED <<registry, setupErr, intBits, storeVars, opsVars, promptVars, llmVars, lockVars, routineVars, cleanVars>>

(***************************************************************************)
(* The store's operations as their callers' goroutines run them: a call    *)
(* takes cm.mu (Lock or RLock), runs its statements one after the other,   *)
(* and releases the lock on return (defer).                                *)
(***************************************************************************)
NoGoroutine == 0

Unlocked == [writer |-> NoGoroutine, readers |-> {}]

NoStoreCall == [pc |-> "idle", op |-> "none", id |-> "", limit |-> 0, exists |-> FALSE,
                result |-> <<>>]

WriteOps == {"AddExchange", "UpdateFeedback", "ClearHistory", "cleanupOldConversations"}

ReadOps == {"GetHistory", "GetConversationSummary", "GetActiveConversations"}

\* UpdateFeedback under the read lock
LockKind_FeedbackShared(op) ==
    IF op \in ReadOps \cup {"UpdateFeedback"} THEN "RLock" ELSE "Lock"

\* AddExchange under the read lock
LockKind_AddShared(op) ==
    IF op \in ReadOps \cup {"AddExchange"} THEN "RLock" ELSE "Lock"

\* the first statement of each operation: cm.mu.Lock() or cm.mu.RLock()
LockKind(op) == IF op \in ReadOps THEN "RLock" ELSE "Lock"

\* sync.RWMutex: Lock goes through when nobody holds the lock, RLock when no
\* writer holds it
CanAcquire(kind) ==
    IF kind = "Lock" THEN mu.writer = NoGoroutine /\ mu.readers = {}
    ELSE mu.writer = NoGoroutine

Acquire(g, kind) ==
    IF kind = "Lock" THEN [mu EXCEPT !.writer = g] ELSE [mu EXCEPT !.readers = @ \cup {g}]

Release(g, kind) ==
    IF kind = "Lock" THEN [mu EXCEPT !.writer = NoGoroutine]
    ELSE [mu EXCEPT !.readers = @ \ {g}]

\* the trigger and the response of goroutine g's AddExchange calls
CallTrigger(g) == IF g = 1 THEN "click" ELSE "feed"

CallResponse(g) == IF g = 1 THEN "hi" ELSE "yum"

\* goroutine g enters a store operation and takes the lock
StoreEnter(g, op, interactionID, limit) ==
    /\ proc[g].pc = "idle"
    /\ CanAcquire(LockKind(op))
    /\ mu' = Acquire(g, LockKind(op))
    /\ proc' = [proc EXCEPT ![g] = [pc |-> "locked", op |-> op, id |-> interactionID,
                                    limit |-> limit, exists |-> FALSE, result |-> <<>>]]
    /\ adds' = IF op = "AddExchange" THEN adds + 1 ELSE adds
    /\ fbs' = IF op = "UpdateFeedback" THEN fbs + 1 ELSE fbs
    /\ onlyAdds' = (onlyAdds /\ op \in ReadOps \cup {"AddExchange"})
    /\ addCalls' = IF op = "AddExchange" THEN [addCalls EXCEPT ![interactionID] = @ + 1] ELSE addCalls
    /\ UNCHANGED <<conversations, storeConfig, now, added, touched, genVars, opsVars,
                   promptVars, llmVars, routineVars, cleanVars>>

\* AddExchange: history, exists := cm.conversations[interactionID]
AddLookup(g) ==
    /\ proc[g].pc = "locked"
    /\ proc[g].op = "AddExchange"
    /\ proc' = [proc EXCEPT ![g].pc = "lookedUp",
                            ![g].exists = (proc[g].id \in DOMAIN conversations)]
    /\ UNCHANGED <<storeVars, mu, addCalls, genVars, opsVars, promptVars, llmVars, routineVars, cleanVars>>

\* AddExchange: if !exists, evict when the store is full, then create the
\* history and put it in the map
AddEnsure(g) ==
    /\ proc[g].pc = "lookedUp"
    /\ IF proc[g].exists THEN UNCHANGED <<conversations, added>>
       ELSE \E afterEvict \in
                (IF maxConversations > 0
                    /\ Cardinality(DOMAIN conversations) >= maxConversations
                 THEN evictOldestConversation(conversations)
                 ELSE {conversations}) :
              LET gone == DOMAIN conversations \ DOMAIN afterEvict
              IN  /\ conversations' = MapPut(afterEvict, proc[g].id, NewHistory(proc[g].id))
                  /\ added' = MapPut([k \in DOMAIN added \ gone |-> added[k]], proc[g].id, <<>>)
    /\ proc' = [proc EXCEPT ![g].pc = "ensured"]
    /\ UNCHANGED <<storeConfig, now, touched, onlyAdds, adds, fbs, mu, addCalls, genVars, opsVars,
                   promptVars, llmVars, routineVars, cleanVars>>

\* AddExchange: history.Exchanges = append(history.Exchanges, exchange),
\* LastUpdated = time.Now(); a history that is no longer in the map takes the
\* exchange away with it
AddAppend(g) ==
    /\ proc[g].pc = "ensured"
    /\ LET exchange == NewExchange(now, CallTrigger(g), CallResponse(g))
       IN  IF proc[g].id \in DOMAIN conversations
           THEN /\ conversations' =
                      [conversations EXCEPT ![proc[g].id].Exchanges = Append(@, exchange),
                                            ![proc[g].id].LastUpdated = now]
                /\ added' = [added EXCEPT ![proc[g].id] = Append(@, exchange)]
                /\ gens' = IF gens[g].pc = "idle" THEN gens
                           ELSE [gens EXCEPT ![g].appended = @ + 1]
           ELSE UNCHANGED <<conversations, added, gens>>
    /\ proc' = [proc EXCEPT ![g].pc = "appended"]
    /\ UNCHANGED <<storeConfig, now, touched, onlyAdds, adds, fbs, mu, addCalls, genVars, opsVars,
                   promptVars, llm, initErr, llmMu, routineVars, cleanVars>>

\* AddExchange: the rolling window
AddTrim(g) ==
    /\ proc[g].pc = "appended"
    /\ IF proc[g].id \in DOMAIN conversations
       THEN conversations' =
                [conversations EXCEPT ![proc[g].id].Exchanges =
                    TrimWindow(@, conversations[proc[g].id].MaxLength)]
       ELSE UNCHANGED conversations
    /\ proc' = [proc EXCEPT ![g].pc = "done"]
    /\ UNCHANGED <<storeConfig, now, added, touched, onlyAdds, adds, fbs, mu, addCalls, genVars,
                   opsVars, promptVars, llmVars, routineVars, cleanVars>>

\* UpdateFeedback between Lock and Unlock
FeedbackBody(g, positive, engagement) ==
    /\ proc[g].pc = "locked"
    /\ proc[g].op = "UpdateFeedback"
    /\ IF proc[g].id \notin DOMAIN conversations
          \/ Len(conversations[proc[g].id].Exchanges) = 0
       THEN UNCHANGED conversations
       ELSE LET history == conversations[proc[g].id]
                lastIdx == Len(history.Exchanges)
            IN  conversations' =
                    [conversations EXCEPT ![proc[g].id] =
                        [history EXCEPT !.Exchanges[lastIdx].UserFeedback = positive,
                                        !.Exchanges[lastIdx].EngagementScore = engagement,
                                        !.LastUpdated = now]]
    /\ proc' = [proc EXCEPT ![g].pc = "done"]
    /\ UNCHANGED <<storeConfig, now, added, touched, onlyAdds, adds, fbs, mu, addCalls, genVars,
                   opsVars, promptVars, llmVars, routineVars, cleanVars>>

\* ClearHistory between Lock and Unlock
ClearBody(g) ==
    /\ proc[g].pc = "locked"
    /\ proc[g].op = "ClearHistory"
    /\ conversations' = MapDelete(conversations, proc[g].id)
    /\ added' = MapDelete(added, proc[g].id)
    /\ proc' = [proc EXCEPT ![g].pc = "done"]
    /\ UNCHANGED <<storeConfig, now, touched, onlyAdds, adds, fbs, mu, addCalls, genVars, opsVars,
                   promptVars, llmVars, routineVars, cleanVars>>

\* cleanupOldConversations: the loop that collects the stale sessions
SweepCollectBody(g) ==
    /\ proc[g].pc = "locked"
    /\ proc[g].op = "cleanupOldConversations"
    /\ proc' = [proc EXCEPT ![g].pc = "collected",
                            ![g].result = StaleSessions(conversations, now - retentionPeriod)]
    /\ UNCHANGED <<storeVars, mu, addCalls, genVars, opsVars, promptVars, llmVars, routineVars, cleanVars>>

\* cleanupOldConversations: the loop that deletes them
SweepDeleteBody(g) ==
    /\ proc[g].pc = "collected"
    /\ conversations' = [k \in DOMAIN conversations \ proc[g].result |-> conversations[k]]
    /\ added' = [k \in DOMAIN added \ proc[g].result |-> added[k]]
    /\ proc' = [proc EXCEPT ![g].pc = "done"]
    /\ UNCHANGED <<storeConfig, now, touched, onlyAdds, adds, fbs, mu, addCalls, genVars, opsVars,
                   promptVars, llmVars, routineVars, cleanVars>>

\* GetHistory, GetConversationSummary, GetActiveConversations between RLock
\* and RUnlock
ReadBody(g) ==
    /\ proc[g].pc = "locked"
    /\ proc[g].op \in ReadOps
    /\ proc' = [proc EXCEPT
                  ![g].pc = "done",
                  ![g].result =
                      CASE proc[g].op = "GetHistory" -> GetHistory(proc[g].id, proc[g].limit)
                        [] proc[g].op = "GetConversationSummary" ->
                               GetConversationSummary(proc[g].id)
                        [] OTHER -> GetActiveConversations]
    /\ UNCHANGED <<storeVars, mu, addCalls, genVars, opsVars, promptVars, llmVars, routineVars, cleanVars>>

\* the deferred Unlock / RUnlock, and the return to the caller
StoreLeave(g) ==
    /\ proc[g].pc = "done"
    /\ mu' = Release(g, LockKind(proc[g].op))
    /\ proc' = [proc EXCEPT ![g] = NoStoreCall]
    /\ UNCHANGED <<storeVars, addCalls, genVars, opsVars, promptVars, llmVars, routineVars, cleanVars>>

(***************************************************************************)
(* LLMBackend: Initialize, Close, CanHandle, and GenerateResponse as the   *)
(* caller's goroutine runs it: the initialized check under llm.mu, the     *)
(* prompt (which reads the history from the backend's store), the          *)
(* prediction, and AddExchange on the store after a successful one.        *)
(***************************************************************************)
DefaultLLMMaxTokens == 50

\* a configuration that json.Unmarshal rejects
MalformedConfig == [valid |-> FALSE, ModelPath |-> "", MaxTokens |-> 0, FallbackEnabled |-> "absent"]

\* the JSON configurations: with and without modelPath and maxTokens, and
\* with "fallbackEnabled" true, false or not mentioned
LLMConfigs ==
    [valid : {TRUE}, ModelPath : {"", "model.gguf"}, MaxTokens : {0, 100},
     FallbackEnabled : {"absent", "true", "false"}]
    \cup {MalformedConfig}

\* json.Unmarshal into a zero LLMConfig: a bool field the JSON does not
\* mention keeps the zero value, false
UnmarshalBool(field) == field = "true"

NewLLMBackend ==
    /\ llm = [initialized |-> FALSE, modelPath |-> "", model |-> "nil",
              maxTokens |-> DefaultLLMMaxTokens, fallbackEnabled |-> TRUE]
    /\ initErr = "none"

\* loadModel: the production model for a .gguf file that loads, the mock
\* model otherwise; the mock model's Initialize cannot fail
LoadableModels(modelPath) ==
    IF modelPath = "model.gguf" THEN {"production", "mock"} ELSE {"mock"}

\* what applyConfig and loadModel make of the backend
Configured(backend, config, model) ==
    [initialized |-> TRUE, modelPath |-> config.ModelPath, model |-> model,
     maxTokens |-> IF config.MaxTokens > 0 THEN config.MaxTokens ELSE backend.maxTokens,
     fallbackEnabled |-> UnmarshalBool(config.FallbackEnabled)]

\* the check for modelPath left out
Initialize_NoValidate(config) ==
    /\ llmMu = {}
    /\ IF ~config.valid
       THEN /\ initErr' = "failed to parse LLM config"
            /\ UNCHANGED llm
       ELSE \E model \in LoadableModels(config.ModelPath) :
              /\ llm' = Configured(llm, config, model)
              /\ initErr' = "nil"
    /\ UNCHANGED <<llmMu, gens, lockVars, storeVars, genVars, opsVars, promptVars, routineVars, cleanVars>>

\* Initialize, under llm.mu.Lock()
Initialize(config) ==
    /\ llmMu = {}
    /\ IF ~config.valid
       THEN /\ initErr' = "failed to parse LLM config"
            /\ UNCHANGED llm
       ELSE IF config.ModelPath = ""
       THEN /\ initErr' = "modelPath is required"
            /\ UNCHANGED llm
       ELSE \E model \in LoadableModels(config.ModelPath) :
              /\ llm' = Configured(llm, config, model)
              /\ initErr' = "nil"
    /\ UNCHANGED <<llmMu, gens, lockVars, storeVars, genVars, opsVars, promptVars, routineVars, cleanVars>>

\* LLMBackend.Close, under llm.mu.Lock()
LLMClose ==
    /\ llmMu = {}
    /\ llm' = [llm EXCEPT !.model = "nil", !.initialized = FALSE]
    /\ UNCHANGED <<initErr, llmMu, gens, lockVars, storeVars, genVars, opsVars, promptVars, routineVars, cleanVars>>

\* LLMBackend.CanHandle
LLMCanHandle(backend) == backend.initialized /\ backend.model # "nil"

NoOutcome == [err |-> FALSE, resp |-> NoResponse, gen |-> "none", fallbackEnabled |-> FALSE]

\* fmt.Errorf("LLM backend not initialized")
NotInitialized ==
    [err |-> TRUE, resp |-> NoResponse, gen |-> "notInitialized", fallbackEnabled |-> FALSE]

\* appended: the exchanges the call has appended to the store so far
NoCall == [pc |-> "idle", id |-> "", out |-> NoOutcome, appended |-> 0]

\* GenerateResponse: llm.mu.RLock()
GenerateEnter(g, interactionID) ==
    /\ gens[g].pc = "idle"
    /\ proc[g].pc = "idle"
    /\ llmMu' = llmMu \cup {g}
    /\ gens' = [gens EXCEPT ![g] = [pc |-> "checking", id |-> interactionID, out |-> NoOutcome,
                                     appended |-> 0]]
    /\ UNCHANGED <<llm, initErr, lockVars, storeVars, genVars, opsVars, promptVars, routineVars, cleanVars>>

\* GenerateResponse with the read lock released by defer, at the return
GenerateCheck_DeferUnlock(g) ==
    /\ gens[g].pc = "checking"
    /\ llmMu' = IF llm.initialized THEN llmMu ELSE llmMu \ {g}
    /\ gens' = IF llm.initialized
               THEN [gens EXCEPT ![g].pc = "buildPrompt"]
               ELSE [gens EXCEPT ![g].pc = "returned", ![g].out = NotInitialized]
    /\ UNCHANGED <<llm, initErr, lockVars, storeVars, genVars, opsVars, promptVars, routineVars, cleanVars>>

\* GenerateResponse: the initialized check and llm.mu.RUnlock()
GenerateCheck(g) ==
    /\ gens[g].pc = "checking"
    /\ llmMu' = llmMu \ {g}
    /\ gens' = IF llm.initialized
               THEN [gens EXCEPT ![g].pc = "buildPrompt"]
               ELSE [gens EXCEPT ![g].pc = "returned", ![g].out = NotInitialized]
    /\ UNCHANGED <<llm, initErr, lockVars, storeVars, genVars, opsVars, promptVars, routineVars, cleanVars>>

\* buildPrompt: llm.contextManager.GetHistory(ctx.InteractionID, 5)
GenerateBuildPrompt(g) ==
    /\ gens[g].pc = "buildPrompt"
    /\ StoreEnter(g, "GetHistory", gens[g].id, 5)

\* GetHistory returns (RUnlock) and generateWithTimeout starts the goroutine
\* that calls llm.model.Predict; a model that Close has set to nil meanwhile
\* makes the call panic
GeneratePredict(g) ==
    /\ gens[g].pc = "buildPrompt"
    /\ proc[g].pc = "done"
    /\ mu' = Release(g, LockKind(proc[g].op))
    /\ proc' = [proc EXCEPT ![g] = NoStoreCall]
    /\ gens' = [gens EXCEPT ![g].pc = IF llm.model = "nil" THEN "panicked" ELSE "predicting"]
    /\ UNCHANGED <<llm, initErr, llmMu, addCalls, storeVars, genVars, opsVars, promptVars, routineVars, cleanVars>>

\* a generated text returned without being recorded in the store
GeneratePredicted_NotRecorded(g, result) ==
    /\ gens[g].pc = "predicting"
    /\ gens' = [gens EXCEPT ![g].pc = "returned",
                            ![g].out = LLMGenerateResponse("llm", llm.fallbackEnabled, result)]
    /\ UNCHANGED <<llm, initErr, llmMu, lockVars, storeVars, genVars, opsVars, promptVars, routineVars, cleanVars>>

\* generateWithTimeout returns: a text, an error or the timeout
GeneratePredicted(g, result) ==
    /\ gens[g].pc = "predicting"
    /\ gens' = IF result = "ok"
               THEN [gens EXCEPT ![g].pc = "addExchange"]
               ELSE [gens EXCEPT ![g].pc = "returned",
                                 ![g].out = LLMGenerateResponse("llm", llm.fallbackEnabled, result)]
    /\ UNCHANGED <<llm, initErr, llmMu, lockVars, storeVars, genVars, opsVars, promptVars, routineVars, cleanVars>>

\* llm.contextManager.AddExchange(ctx.InteractionID, ctx.Trigger, response)
GenerateAddExchange(g) ==
    /\ gens[g].pc = "addExchange"
    /\ StoreEnter(g, "AddExchange", gens[g].id, 0)

\* AddExchange returns (Unlock); return dialogResponse, nil
GenerateReturn(g) ==
    /\ gens[g].pc = "addExchange"
    /\ proc[g].pc = "done"
    /\ mu' = Release(g, LockKind(proc[g].op))
    /\ proc' = [proc EXCEPT ![g] = NoStoreCall]
    /\ gens' = [gens EXCEPT ![g].pc = "returned",
                            ![g].out = [LLMGenerateResponse("llm", llm.fallbackEnabled, "ok")
                                          EXCEPT !.resp.Text = CallResponse(g)]]
    /\ UNCHANGED <<llm, initErr, llmMu, addCalls, storeVars, genVars, opsVars, promptVars, routineVars, cleanVars>>

\* the caller has the response
GenerateDone(g) ==
    /\ gens[g].pc = "returned"
    /\ gens' = [gens EXCEPT ![g] = NoCall]
    /\ UNCHANGED <<llm, initErr, llmMu, lockVars, storeVars, genVars, opsVars, promptVars, routineVars, cleanVars>>

(***************************************************************************)
(* LLMBackend.cleanResponse.  A string is the sequence of its bytes, by    *)
(* class: a double quote, a single quote, a space, a full stop, a letter,  *)
(* and LongRun, which stands for DisplayLimit letters in a row.            *)
(***************************************************************************)
DisplayLimit == 150

DoubleQuote == "dq"

SingleQuote == "sq"

Space == "sp"

FullStop == "."

Letter == "a"

LongRun == "run"

Bytes == {DoubleQuote, SingleQuote, Space, FullStop, Letter, LongRun}

\* len(s)
RECURSIVE ByteLen(_)
ByteLen(s) ==
    IF s = <<>> THEN 0
    ELSE (IF Head(s) = LongRun THEN DisplayLimit ELSE 1) + ByteLen(Tail(s))

\* strings.TrimSpace
RECURSIVE TrimSpace(_)
TrimSpace(s) ==
    IF s = <<>> THEN s
    ELSE IF Head(s) = Space THEN TrimSpace(Tail(s))
    ELSE IF s[Len(s)] = Space THEN TrimSpace(SubSeq(s, 1, Len(s) - 1))
    ELSE s

HasPrefix(s, byte) == Len(s) > 0 /\ s[1] = byte

HasSuffix(s, byte) == Len(s) > 0 /\ s[Len(s)] = byte

\* strings.Split(s, ". ")
RECURSIVE SplitSentences(_)
SplitSentences(s) ==
    LET seps == {i \in 1..(Len(s) - 1) : s[i] = FullStop /\ s[i + 1] = Space}
    IN  IF seps = {} THEN <<s>>
        ELSE LET i == CHOOSE k \in seps : \A j \in seps : k <= j
             IN  <<SubSeq(s, 1, i - 1)>> \o SplitSentences(SubSeq(s, i + 2, Len(s)))

\* "Hello! " and the waving hand
DefaultGreeting == <<Letter, Letter, Letter, Letter, Letter, "!", Space, "wave">>

NotCleaned == [called |-> FALSE, panic |-> FALSE, text |-> <<>>]

CleanedTo(text) == [called |-> TRUE, panic |-> FALSE, text |-> text]

\* panic: slice bounds out of range [1:0]
SliceOutOfRange == [called |-> TRUE, panic |-> TRUE, text |-> <<>>]

\* the length limit and the default for an empty text
LimitAndDefault(text) ==
    LET sentences == SplitSentences(text)
        limited == IF ByteLen(text) > DisplayLimit /\ Len(sentences) > 2
                   THEN sentences[1] \o <<FullStop, Space>> \o sentences[2] \o <<FullStop>>
                   ELSE text
    IN  IF Len(TrimSpace(limited)) = 0 THEN DefaultGreeting ELSE limited

\* what cleanResponse returns for a model output, or the panic it ends in
CleanResponseOf(response) ==
    LET trimmed == TrimSpace(response)
    IN  IF \/ HasPrefix(trimmed, DoubleQuote) /\ HasSuffix(trimmed, DoubleQuote)
           \/ HasPrefix(trimmed, SingleQuote) /\ HasSuffix(trimmed, SingleQuote)
        THEN IF 1 > Len(trimmed) - 1
             THEN SliceOutOfRange
             ELSE CleanedTo(LimitAndDefault(SubSeq(trimmed, 2, Len(trimmed) - 1)))
        ELSE CleanedTo(LimitAndDefault(trimmed))

cleanResponse(response) ==
    /\ raw' = response
    /\ cleaned' = CleanResponseOf(response)
    /\ UNCHANGED <<storeVars, genVars, opsVars, promptVars, llmVars, lockVars, routineVars>>

(***************************************************************************)
(* The store under arbitrary callers.                                      *)
(***************************************************************************)
StoreGhostInit ==
    /\ now = 0
    /\ added = <<>>
    /\ touched = <<>>
    /\ onlyAdds = TRUE
    /\ adds = 0
    /\ fbs = 0
    /\ sweep = NoSweep
    /\ closed = FALSE
    /\ tickerStopped = FALSE
    /\ storePanic = "none"
    /\ closePc = [caller \in Closers |-> "idle"]
    /\ returned = NoReturned
    /\ NewPromptBuilder
    /\ NewLLMBackend
    /\ llmMu = {}
    /\ gens = [g \in Goroutines |-> NoCall]
    /\ mu = Unlocked
    /\ proc = [g \in Goroutines |-> NoStoreCall]
    /\ addCalls = [id \in LockIDs |-> 0]
    /\ ticks = 0
    /\ routine = "waiting"
    /\ raw = <<>>
    /\ cleaned = NotCleaned

Init ==
    /\ \E mh \in MaxHistoryArgs, mc \in MaxConversationsArgs, rp \in RetentionArgs :
          NewContextManagerWithConfig(mh, mc, rp)
    /\ StoreGhostInit
    /\ NewDialogManager
    /\ intBits = 64

CallAddExchange ==
    /\ adds < MaxAdds
    /\ \E id \in IDs, trigger \in Triggers, response \in Responses :
          AddExchange(id, trigger, response)

CallUpdateFeedback ==
    /\ fbs < MaxFeedback
    /\ \E id \in IDs, positive \in BOOLEAN, engagement \in Engagements :
          UpdateFeedback(id, positive, engagement)

\* clearing or sweeping an empty store changes nothing
CallClearHistory == \E id \in DOMAIN conversations : ClearHistory(id)

CallSweep == DOMAIN conversations # {} /\ cleanupOldConversations

Next ==
    \/ CallAddExchange
    \/ CallUpdateFeedback
    \/ CallClearHistory
    \/ CallSweep
    \/ Tick

Spec == Init /\ [][Next]_vars

(***************************************************************************)
(* One session driven past its window, for the windows 2 and 10 (default). *)
(***************************************************************************)
InitWindow ==
    /\ \E mh \in WindowHistoryArgs, rp \in RetentionArgs :
          NewContextManagerWithConfig(mh, 0, rp)
    /\ StoreGhostInit
    /\ NewDialogManager
    /\ intBits = 64

WindowAddExchange ==
    /\ adds < MaxWindowAdds
    /\ \E id \in WindowIDs, trigger \in Triggers, response \in Responses :
          AddExchange(id, trigger, response)

WindowUpdateFeedback ==
    /\ fbs < MaxFeedback
    /\ \E id \in WindowIDs, positive \in BOOLEAN, engagement \in Engagements :
          UpdateFeedback(id, positive, engagement)

NextWindow ==
    \/ WindowAddExchange
    \/ WindowUpdateFeedback
    \/ CallClearHistory
    \/ CallSweep
    \/ Tick

SpecWindow == InitWindow /\ [][NextWindow]_vars

(***************************************************************************)
(* The store with its lock, concurrent Close calls, the background sweep   *)
(* and callers that keep and edit what GetHistory returned.  A panic ends  *)
(* the process.                                                            *)
(***************************************************************************)
InitOps ==
    /\ \E mh \in OpsHistoryArgs, mc \in OpsConversationsArgs, rp \in RetentionArgs :
          NewContextManagerWithConfig(mh, mc, rp)
    /\ StoreGhostInit
    /\ NewDialogManager
    /\ intBits = 64

Alive == storePanic = "none"

OpsAddExchange ==
    /\ Alive
    /\ adds < MaxOpsAdds
    /\ TryLock(sweep.active)
    /\ \E id \in OpsIDs, trigger \in Triggers, response \in Responses :
          AddExchange(id, trigger, response)

OpsUpdateFeedback ==
    /\ Alive
    /\ fbs < MaxFeedback
    /\ TryLock(sweep.active)
    /\ \E id \in OpsIDs, positive \in BOOLEAN, engagement \in Engagements :
          UpdateFeedback(id, positive, engagement)

OpsClearHistory ==
    /\ Alive
    /\ TryLock(sweep.active)
    /\ \E id \in DOMAIN conversations : ClearHistory(id)

OpsSweepCollect == Alive /\ DOMAIN conversations # {} /\ sweepCollect

OpsSweepDelete == Alive /\ sweepDelete

OpsCloseStopTicker == Alive /\ \E caller \in Closers : CloseStopTicker(caller)

OpsCloseReleaseMap == Alive /\ \E caller \in Closers : CloseReleaseMap(caller)

OpsGetHistory ==
    /\ Alive
    /\ \E id \in OpsIDs, limit \in OpsCallLimits : GetHistoryCall(id, limit)

OpsModifyReturned ==
    /\ Alive
    /\ \E i \in DOMAIN returned.exchanges, text \in Edits : ModifyReturned(i, text)

OpsTick == Alive /\ Tick

\* the store, its sweep and concurrent Close calls
NextOps ==
    \/ OpsAddExchange
    \/ OpsUpdateFeedback
    \/ OpsClearHistory
    \/ OpsSweepCollect
    \/ OpsSweepDelete
    \/ OpsCloseStopTicker
    \/ OpsCloseReleaseMap
    \/ OpsTick

SpecOps == InitOps /\ [][NextOps]_vars

\* one session, its sweep and a caller of GetHistory
CopyAddExchange ==
    /\ Alive
    /\ adds < MaxOpsAdds
    /\ TryLock(sweep.active)
    /\ \E id \in CopyIDs, trigger \in Triggers, response \in Responses :
          AddExchange(id, trigger, response)

NextCopy ==
    \/ CopyAddExchange
    \/ OpsUpdateFeedback
    \/ OpsClearHistory
    \/ OpsSweepCollect
    \/ OpsSweepDelete
    \/ OpsGetHistory
    \/ OpsModifyReturned
    \/ OpsTick

SpecCopy == InitOps /\ [][NextCopy]_vars

(***************************************************************************)
(* A prompt builder under arbitrary setter calls, each Build on the        *)
(* builder as it then stands.                                              *)
(***************************************************************************)
InitPrompt == InitOps

CallAddSystemPrompt == \E prompt \in SystemPrompts : AddSystemPrompt(prompt)

CallAddPersonality == \E personality \in Personalities : AddPersonality(personality)

CallAddHistory == \E history \in PromptHistories : AddHistory(history)

CallAddContext == \E context \in PromptContexts : AddContext(context)

CallSetMaxTokens == \E maxTokens \in MaxTokensArgs : SetMaxTokens(maxTokens)

CallBuild == ~built.valid /\ Build

NextPrompt ==
    \/ CallAddSystemPrompt
    \/ CallAddPersonality
    \/ CallAddHistory
    \/ CallAddContext
    \/ CallSetMaxTokens
    \/ CallBuild

SpecPrompt == InitPrompt /\ [][NextPrompt]_vars

(***************************************************************************)
(* BuildFromTemplate on builders whose persona may itself hold the text of *)
(* a placeholder, with the templates of the tests and one that uses every  *)
(* placeholder, {trigger} twice.                                           *)
(***************************************************************************)
\* "cheerful", and personas that quote a placeholder
TemplatePersonalities == {Ascii(8), <<"{trigger}">>, Ascii(2) \o <<"{personality}">>}

\* Trigger "click", CurrentMood 75, TimeOfDay "afternoon"; Trigger "click" alone
TemplateContexts ==
    {[Trigger |-> "click", CurrentMood |-> 75, TimeOfDay |-> Ascii(9)],
     [Trigger |-> "click", CurrentMood |-> 0, TimeOfDay |-> <<>>]}

Templates ==
    {\* "System: {systemPrompt}\nPersonality: {personality}\nMood: {mood}\n
     \*  Trigger: {trigger}\nTime: {timeOfDay}"
     Concat(<<Ascii(7), Sp, <<"{systemPrompt}">>, NL, Ascii(12), Sp, <<"{personality}">>, NL,
              Ascii(5), Sp, <<"{mood}">>, NL, Ascii(8), Sp, <<"{trigger}">>, NL,
              Ascii(5), Sp, <<"{timeOfDay}">>>>),
     \* "Personality: {personality}, Trigger: {trigger}"
     Concat(<<Ascii(12), Sp, <<"{personality}">>, Ascii(1), Sp, Ascii(8), Sp, <<"{trigger}">>>>),
     \* every placeholder, a newline after each, and {trigger} once more
     <<"{trigger}", "\n", "{systemPrompt}", "\n", "{personality}", "\n", "{characterState}", "\n",
       "{conversationHistory}", "\n", "{currentSituation}", "\n", "{responseInstructions}", "\n",
       "{mood}", "\n", "{timeOfDay}", "\n", "{relationshipLevel}", "\n", "{trigger}">>}

InitTemplate == InitOps

\* the builder is not touched while a BuildFromTemplate call is running
TemplateAddSystemPrompt ==
    /\ fromTemplate.pc # "replacing"
    /\ \E prompt \in SystemPrompts : AddSystemPrompt(prompt)

TemplateAddPersonality ==
    /\ fromTemplate.pc # "replacing"
    /\ \E personality \in TemplatePersonalities : AddPersonality(personality)

TemplateAddContext ==
    /\ fromTemplate.pc # "replacing"
    /\ \E context \in TemplateContexts : AddContext(context)

CallBuildFromTemplate ==
    /\ fromTemplate.pc = "idle"
    /\ \E template \in Templates : BuildFromTemplate(template)

NextTemplate ==
    \/ TemplateAddSystemPrompt
    \/ TemplateAddPersonality
    \/ TemplateAddContext
    \/ CallBuildFromTemplate
    \/ ReplaceNext
    \/ ReturnFromTemplate

SpecTemplate == InitTemplate /\ [][NextTemplate]_vars

(***************************************************************************)
(* The dialog manager under arbitrary setup calls and backend behaviour,   *)
(* on a 32-bit and on a 64-bit build.                                      *)
(***************************************************************************)
\* the sequences over S of length at most n
SeqsUpTo(S, n) == UNION {[1..k -> S] : k \in 0..n}

InitGen ==
    /\ NewContextManagerWithConfig(DefaultMaxHistory, 0, DefaultRetention)
    /\ StoreGhostInit
    /\ NewDialogManager
    /\ intBits \in IntWidths

CallRegisterBackend == \E name \in Names, backend \in Handles : RegisterBackend(name, backend)

CallSetDefaultBackend == \E name \in Names : SetDefaultBackend(name)

CallSetFallbackChain == \E names \in SeqsUpTo(Names, MaxChain) : SetFallbackChain(names)

CallGenerateDialog == \E context \in Contexts : GenerateDialog(context)

NextGen ==
    \/ CallRegisterBackend
    \/ CallSetDefaultBackend
    \/ CallSetFallbackChain
    \/ CallGenerateDialog
    \/ tryDefaultBackend
    \/ tryFallbackBackend
    \/ createFallbackResponse
    \/ ReturnDialog

SpecGen == InitGen /\ [][NextGen]_vars

(***************************************************************************)
(* A dialog manager whose backends are registered and then told of the     *)
(* user's feedback.                                                        *)
(***************************************************************************)
CallUpdateBackendMemory ==
    \E order \in Orders(DOMAIN backends), able \in SUBSET Names, failed \in BOOLEAN :
       UpdateBackendMemory(order, able, failed)

NextMemory ==
    \/ CallRegisterBackend
    \/ CallSetDefaultBackend
    \/ CallUpdateBackendMemory

SpecMemory == InitGen /\ [][NextMemory]_vars

(***************************************************************************)
(* An LLM backend with its own store (NewContextManager(10)), set up,      *)
(* closed and asked for responses by two goroutines, which also call the   *)
(* store directly.                                                         *)
(***************************************************************************)
InitLLM ==
    /\ NewContextManagerWithConfig(DefaultMaxHistory, 0, DefaultRetention)
    /\ StoreGhostInit
    /\ NewDialogManager
    /\ intBits = 64

(***************************************************************************)
(* cleanResponse given the model outputs of up to MaxRawLen bytes.         *)
(***************************************************************************)
CallCleanResponse ==
    /\ ~cleaned.called
    /\ \E response \in SeqsUpTo(Bytes, MaxRawLen) : cleanResponse(response)

NextClean == CallCleanResponse

SpecClean == InitLLM /\ [][NextClean]_vars

\* calls under way that may still add an exchange
Generating == {g \in Goroutines : gens[g].pc # "idle"}

AddBudget == adds + Cardinality(Generating) < MaxLLMAdds

CallInitialize == \E config \in LLMConfigs : Initialize(config)

CallLLMClose == LLMClose

CallGenerateResponse ==
    /\ AddBudget
    /\ \E g \in Goroutines, id \in LLMIDs : GenerateEnter(g, id)

LLMGenerateCheck == \E g \in Goroutines : GenerateCheck(g)

LLMBuildPrompt == \E g \in Goroutines : GenerateBuildPrompt(g)

LLMPredict == \E g \in Goroutines : GeneratePredict(g)

LLMPredicted == \E g \in Goroutines, result \in GenResults : GeneratePredicted(g, result)

LLMAddExchange == \E g \in Goroutines : GenerateAddExchange(g)

LLMReturn == \E g \in Goroutines : GenerateReturn(g)

LLMDone == \E g \in Goroutines : GenerateDone(g)

\* a goroutine that is not in GenerateResponse calls the store itself
LLMStoreCall ==
    \E g \in Goroutines, op \in {"AddExchange", "GetHistory"}, id \in LLMIDs :
        /\ gens[g].pc = "idle"
        /\ op = "AddExchange" => AddBudget
        /\ StoreEnter(g, op, id, 0)

LLMStoreLeave == \E g \in Goroutines : gens[g].pc = "idle" /\ StoreLeave(g)

NextLLM ==
    \/ CallInitialize
    \/ CallLLMClose
    \/ CallGenerateResponse
    \/ LLMGenerateCheck
    \/ LLMBuildPrompt
    \/ LLMPredict
    \/ LLMPredicted
    \/ LLMAddExchange
    \/ LLMReturn
    \/ LLMDone
    \/ LLMStoreCall
    \/ LLMStoreLeave
    \/ \E g \in Goroutines : AddLookup(g)
    \/ \E g \in Goroutines : AddEnsure(g)
    \/ \E g \in Goroutines : AddAppend(g)
    \/ \E g \in Goroutines : AddTrim(g)
    \/ \E g \in Goroutines : ReadBody(g)

SpecLLM == InitLLM /\ [][NextLLM]_vars

(***************************************************************************)
(* The store called by two goroutines at once, every operation from its    *)
(* Lock to its Unlock, with and without a session limit.                   *)
(***************************************************************************)
InitLock ==
    /\ \E mh \in LockHistoryArgs, mc \in LockConversationsArgs, rp \in RetentionArgs :
          NewContextManagerWithConfig(mh, mc, rp)
    /\ StoreGhostInit
    /\ NewDialogManager
    /\ intBits = 64

LockAddExchange ==
    /\ adds < MaxLockAdds
    /\ \E g \in Goroutines, id \in LockIDs : StoreEnter(g, "AddExchange", id, 0)

LockUpdateFeedback ==
    /\ fbs < MaxFeedback
    /\ \E g \in Goroutines, id \in LockIDs : StoreEnter(g, "UpdateFeedback", id, 0)

LockClearHistory == \E g \in Goroutines, id \in LockIDs : StoreEnter(g, "ClearHistory", id, 0)

LockSweep == \E g \in Goroutines : StoreEnter(g, "cleanupOldConversations", "", 0)

LockGetHistory ==
    \E g \in Goroutines, id \in LockIDs, limit \in LockLimits :
        StoreEnter(g, "GetHistory", id, limit)

LockGetConversationSummary ==
    \E g \in Goroutines, id \in LockIDs : StoreEnter(g, "GetConversationSummary", id, 0)

LockGetActiveConversations ==
    \E g \in Goroutines : StoreEnter(g, "GetActiveConversations", "", 0)

LockFeedbackBody ==
    \E g \in Goroutines, positive \in BOOLEAN, engagement \in Engagements :
        FeedbackBody(g, positive, engagement)

NextLock ==
    \/ LockAddExchange
    \/ LockUpdateFeedback
    \/ LockClearHistory
    \/ LockSweep
    \/ LockGetHistory
    \/ LockGetConversationSummary
    \/ LockGetActiveConversations
    \/ LockFeedbackBody
    \/ \E g \in Goroutines : AddLookup(g)
    \/ \E g \in Goroutines : AddEnsure(g)
    \/ \E g \in Goroutines : AddAppend(g)
    \/ \E g \in Goroutines : AddTrim(g)
    \/ \E g \in Goroutines : ClearBody(g)
    \/ \E g \in Goroutines : SweepCollectBody(g)
    \/ \E g \in Goroutines : SweepDeleteBody(g)
    \/ \E g \in Goroutines : ReadBody(g)
    \/ \E g \in Goroutines : StoreLeave(g)
    \/ Tick

SpecLock == InitLock /\ [][NextLock]_vars

(***************************************************************************)
(* AddExchange calls running concurrently with each other and with         *)
(* GetHistory and GetConversationSummary calls, as in                      *)
(* TestContextManager_ConcurrentAccess.                                    *)
(***************************************************************************)
InitConcurrent ==
    /\ \E mh \in ConcurrentHistoryArgs, mc \in ConcurrentConversationsArgs, rp \in RetentionArgs :
          NewContextManagerWithConfig(mh, mc, rp)
    /\ StoreGhostInit
    /\ NewDialogManager
    /\ intBits = 64

ConcurrentAddExchange ==
    /\ adds < MaxConcurrentAdds
    /\ \E g \in Goroutines, id \in LockIDs : StoreEnter(g, "AddExchange", id, 0)

NextConcurrent ==
    \/ ConcurrentAddExchange
    \/ LockGetHistory
    \/ LockGetConversationSummary
    \/ \E g \in Goroutines : AddLookup(g)
    \/ \E g \in Goroutines : AddEnsure(g)
    \/ \E g \in Goroutines : AddAppend(g)
    \/ \E g \in Goroutines : AddTrim(g)
    \/ \E g \in Goroutines : ReadBody(g)
    \/ \E g \in Goroutines : StoreLeave(g)

SpecConcurrent == InitConcurrent /\ [][NextConcurrent]_vars

(***************************************************************************)
(* The life of a session: every operation that puts a session into the     *)
(* store or takes one out, Close included, on the identifiers of IDs and    *)
(* with and without a session limit.  A panic ends the process.            *)
(***************************************************************************)
InitSessions ==
    /\ \E mh \in OpsHistoryArgs, mc \in SessionsConversationsArgs, rp \in RetentionArgs :
          NewContextManagerWithConfig(mh, mc, rp)
    /\ StoreGhostInit
    /\ NewDialogManager
    /\ intBits = 64

SessionsAddExchange ==
    /\ Alive
    /\ adds < MaxSessionAdds
    /\ \E id \in SessionsIDs, trigger \in Triggers, response \in Responses :
          AddExchange(id, trigger, response)

SessionsUpdateFeedback ==
    /\ Alive
    /\ fbs < MaxFeedback
    /\ \E id \in SessionsIDs, positive \in BOOLEAN, engagement \in Engagements :
          UpdateFeedback(id, positive, engagement)

SessionsClearHistory == Alive /\ \E id \in SessionsIDs : ClearHistory(id)

SessionsSweep == Alive /\ cleanupOldConversations

SessionsCloseStopTicker == Alive /\ \E caller \in SessionsClosers : CloseStopTicker(caller)

SessionsCloseReleaseMap == Alive /\ \E caller \in SessionsClosers : CloseReleaseMap(caller)

SessionsTick == Alive /\ Tick

NextSessions ==
    \/ SessionsAddExchange
    \/ SessionsUpdateFeedback
    \/ SessionsClearHistory
    \/ SessionsSweep
    \/ SessionsCloseStopTicker
    \/ SessionsCloseReleaseMap
    \/ SessionsTick

SpecSessions == InitSessions /\ [][NextSessions]_vars

(***************************************************************************)
(* Feedback given more than once: AddExchange and UpdateFeedback calls on  *)
(* the sessions of SessionsIDs, with a window of two.                      *)
(***************************************************************************)
InitFeedback ==
    /\ \E mh \in OpsHistoryArgs, rp \in RetentionArgs : NewContextManagerWithConfig(mh, 0, rp)
    /\ StoreGhostInit
    /\ NewDialogManager
    /\ intBits = 64

FeedbackAddExchange ==
    /\ adds < MaxSessionAdds
    /\ \E id \in SessionsIDs, trigger \in Triggers, response \in Responses :
          AddExchange(id, trigger, response)

RepeatedUpdateFeedback ==
    /\ fbs < MaxRepeatedFeedback
    /\ \E id \in SessionsIDs, positive \in BOOLEAN, engagement \in Engagements :
          UpdateFeedback(id, positive, engagement)

NextFeedback ==
    \/ FeedbackAddExchange
    \/ RepeatedUpdateFeedback
    \/ SessionsClearHistory
    \/ Tick

SpecFeedback == InitFeedback /\ [][NextFeedback]_vars

(***************************************************************************)
(* The background task.  NewContextManagerWithConfig starts the ticker and *)
(* the goroutine cleanupRoutine, which runs one cleanupOldConversations    *)
(* pass for every tick it receives from cm.cleanupTicker.C:                *)
(*     for range cm.cleanupTicker.C { cm.cleanupOldConversations() }       *)
(* The channel holds at most one tick.  Stop stops the ticker and does not *)
(* close the channel, so the range loop has no exit.                       *)
(***************************************************************************)
\* the ticker fires; a tick that finds the channel full is dropped
TickerFire ==
    /\ ~tickerStopped
    /\ ticks = 0
    /\ ticks' = 1
    /\ UNCHANGED <<routine, storeVars, genVars, opsVars, promptVars, llmVars, lockVars, cleanVars>>

\* a tick left in the channel of a stopped ticker is not delivered (Go 1.23
\* and later; earlier versions deliver it)
TickDiscarded ==
    /\ tickerStopped
    /\ ticks = 1
    /\ ticks' = 0
    /\ UNCHANGED <<routine, storeVars, genVars, opsVars, promptVars, llmVars, lockVars, cleanVars>>

\* the range loop receives a tick and calls cleanupOldConversations
RoutineReceive ==
    /\ routine = "waiting"
    /\ ticks = 1
    /\ ticks' = 0
    /\ routine' = "received"
    /\ UNCHANGED <<storeVars, genVars, opsVars, promptVars, llmVars, lockVars, cleanVars>>

\* cleanupOldConversations: cm.mu.Lock() and the collection
RoutineCollect ==
    /\ routine = "received"
    /\ TryLock(sweep.active)
    /\ LET cutoff == now - retentionPeriod
       IN  sweep' = [active |-> TRUE, cutoff |-> cutoff,
                     toDelete |-> StaleSessions(conversations, cutoff)]
    /\ routine' = "sweeping"
    /\ UNCHANGED <<ticks, storeVars, genVars, closed, tickerStopped, storePanic, closePc,
                   returned, promptVars, llmVars, lockVars, cleanVars>>

\* cleanupOldConversations: the deletion and the return to the range loop
RoutineDelete ==
    /\ routine = "sweeping"
    /\ conversations' = [k \in DOMAIN conversations \ sweep.toDelete |-> conversations[k]]
    /\ added' = [k \in DOMAIN added \ sweep.toDelete |-> added[k]]
    /\ onlyAdds' = FALSE
    /\ sweep' = NoSweep
    /\ routine' = "waiting"
    /\ UNCHANGED <<ticks, storeConfig, now, touched, adds, fbs, genVars, closed, tickerStopped,
                   storePanic, closePc, returned, promptVars, llmVars, lockVars, cleanVars>>

RoutineAddExchange ==
    /\ ~closed
    /\ adds < MaxOpsAdds
    /\ TryLock(sweep.active)
    /\ \E id \in OpsIDs, trigger \in Triggers, response \in Responses :
          AddExchange(id, trigger, response)

RoutineCloseStopTicker == \E caller \in Closers : CloseStopTicker(caller)

RoutineCloseReleaseMap == \E caller \in Closers : CloseReleaseMap(caller)

NextRoutine ==
    \/ TickerFire
    \/ TickDiscarded
    \/ RoutineReceive
    \/ RoutineCollect
    \/ RoutineDelete
    \/ RoutineAddExchange
    \/ RoutineCloseStopTicker
    \/ RoutineCloseReleaseMap
    \/ Tick

\* the goroutine is scheduled: a step of it that stays possible is taken
SpecRoutine ==
    /\ InitOps
    /\ [][NextRoutine]_vars
    /\ WF_vars(RoutineReceive)
    /\ WF_vars(RoutineCollect)
    /\ WF_vars(RoutineDelete)

(***************************************************************************)
(* Properties of the conversation store.                                   *)
(***************************************************************************)

\* the last n elements of s (all of s when it has fewer)
LastN(s, n) == IF Len(s) <= n THEN s ELSE SliceFrom(s, Len(s) - n + 1)

\* an exchange as AddExchange recorded it, whatever feedback came later
AsAdded(exchange) == [exchange EXCEPT !.UserFeedback = FALSE, !.EngagementScore = 0]

AllAsAdded(exchanges) == [i \in DOMAIN exchanges |-> AsAdded(exchanges[i])]

\* C1: with maxConversations = M > 0 the number of tracked sessions
\* (GetActiveConversations) never exceeds M, whatever AddExchange,
\* UpdateFeedback, ClearHistory and sweep calls were made on whatever
\* session identifiers.
C1_SessionCountBounded ==
    maxConversations > 0 => GetActiveConversations <= maxConversations

\* C2: with maxConversations = M > 0, once AddExchange calls (and no other
\* store operation) have touched more than M distinct sessions, the sessions
\* with a non-empty history are exactly the M most recently touched ones.
C2_LRUKeepsMostRecent ==
    (onlyAdds /\ maxConversations > 0 /\ Len(touched) > maxConversations) =>
        \A id \in IDs :
            (GetHistory(id, 0) # <<>>) <=> (id \in SeqRange(LastN(touched, maxConversations)))

C4_LastWindowKept ==
    \A id \in DOMAIN conversations :
        AllAsAdded(conversations[id].Exchanges) = LastN(added[id], maxHistory)

\* C4 witness: window 10 and 11 calls on one session, made at more than one
\* clock reading: 10 exchanges are held and the first one is gone.
C4_Witness ==
    /\ maxHistory = 10
    /\ \E id \in DOMAIN conversations :
          /\ Len(added[id]) = 11
          /\ Len(conversations[id].Exchanges) = 10
          /\ added[id][1].Timestamp < added[id][2].Timestamp
          /\ AsAdded(conversations[id].Exchanges[1]) = added[id][2]

(***************************************************************************)
(* Properties of the dialog manager's response resolution.                 *)
(***************************************************************************)
Positions == DOMAIN calls

IsGenerate(i, stage) == calls[i].stage = stage /\ calls[i].method = "GenerateResponse"

IsCanHandle(i, stage) == calls[i].stage = stage /\ calls[i].method = "CanHandle"

\* the default backend was invoked and answered without error, confidence > 0.5
DefaultAccepted ==
    \E i \in Positions :
        IsGenerate(i, "default") /\ ~calls[i].result.err /\ calls[i].result.resp.Confidence > 50

\* a fallback-chain backend was invoked and answered without error
ChainAccepted == \E i \in Positions : IsGenerate(i, "chain") /\ ~calls[i].result.err

\* chain position p was tried and gave nothing: unregistered or nil handle,
\* CanHandle false, or an error from GenerateResponse
ChainPositionFailed(p) ==
    \/ ~Usable(fallbackChain[p])
    \/ \E i \in Positions : IsCanHandle(i, "chain") /\ calls[i].pos = p /\ ~calls[i].result
    \/ \E i \in Positions : IsGenerate(i, "chain") /\ calls[i].pos = p /\ calls[i].result.err

\* C5: a GenerateDialog call whose context has at least one fallback string
\* never crashes, and when it returns it returns a response and no error,
\* whatever the registry, the default, the chain and the backends do.
C5_GenerateNeverFails ==
    Len(ctx.FallbackResponses) >= 1 =>
        /\ pc # "Panicked"
        /\ pc = "Done" => (genErr = "nil" /\ dialogResponse # NoResponse)

\* C6: GenerateDialog returns the default backend's response if and only if
\* a default is set, registered, answered CanHandle with true and answered
\* GenerateResponse without error and with confidence > 0.5; an answer of
\* confidence 0.5 or lower is discarded and the fallback chain is tried.
C6_DefaultGate ==
    /\ pc = "Done" =>
        ((resultFrom = "default") <=>
            /\ defaultBackend # ""
            /\ defaultBackend \in DOMAIN backends
            /\ \E i \in Positions :
                  /\ IsCanHandle(i, "default")
                  /\ calls[i].name = defaultBackend
                  /\ calls[i].result
            /\ \E i \in Positions :
                  /\ IsGenerate(i, "default")
                  /\ calls[i].name = defaultBackend
                  /\ ~calls[i].result.err
                  /\ calls[i].result.resp.Confidence > 50
                  /\ dialogResponse = calls[i].result.resp)
    /\ \A i \in Positions :
          (IsGenerate(i, "default") /\ ~calls[i].result.err
              /\ calls[i].result.resp.Confidence <= 50) =>
            /\ resultFrom # "default"
            /\ pc \in {"TryFallback", "StaticFallback", "Done", "Panicked"}
            /\ (pc = "Done" /\ fallbackChain # <<>> /\ Usable(fallbackChain[1])) =>
                  \E j \in Positions : IsCanHandle(j, "chain") /\ calls[j].pos = 1

\* C6 witness: the default backend answered with confidence exactly 0.5 and
\* the call returned a fallback-chain backend's response instead.
C6_Witness ==
    /\ pc = "Done"
    /\ resultFrom = "chain"
    /\ \E i \in Positions :
          IsGenerate(i, "default") /\ ~calls[i].result.err
              /\ calls[i].result.resp.Confidence = 50

\* C7: once the default backend's response is accepted, GenerateDialog is
\* done with that response and no method of a fallback-chain backend has
\* been or will be invoked.
C7_DefaultShortCircuits ==
    DefaultAccepted =>
        /\ pc = "Done"
        /\ resultFrom = "default"
        /\ \A i \in Positions : calls[i].stage # "chain"

\* C7 witness: the default answered with confidence 0.9 while a live backend
\* was waiting in the fallback chain.
C7_Witness ==
    /\ pc = "Done"
    /\ fallbackChain # <<>>
    /\ Usable(fallbackChain[1])
    /\ dialogResponse.Confidence = 90
    /\ \E i \in Positions :
          IsGenerate(i, "default") /\ calls[i].result.resp.Confidence = 90

\* C8: the fallback chain is walked in its order, each position once; an
\* unregistered or nil entry, or one whose CanHandle says false, is skipped
\* without GenerateResponse being invoked; the first answer without error is
\* returned whatever its confidence, and nothing later in the chain is
\* invoked.
C8_ChainWalk ==
    /\ \A i, j \in Positions :
          (i < j /\ calls[i].stage = "chain" /\ calls[j].stage = "chain") =>
            /\ calls[i].pos <= calls[j].pos
            /\ calls[i].pos = calls[j].pos =>
                  (calls[i].method = "CanHandle" /\ calls[j].method = "GenerateResponse")
    /\ \A i \in Positions :
          calls[i].stage = "chain" =>
            /\ calls[i].pos \in DOMAIN fallbackChain
            /\ calls[i].name = fallbackChain[calls[i].pos]
            /\ Usable(calls[i].name)
            /\ ~DefaultAccepted
    /\ \A i \in Positions :
          IsGenerate(i, "chain") =>
            \E j \in Positions :
                j < i /\ IsCanHandle(j, "chain") /\ calls[j].pos = calls[i].pos /\ calls[j].result
    /\ \A i \in Positions :
          (IsGenerate(i, "chain") /\ ~calls[i].result.err) =>
            /\ pc = "Done"
            /\ resultFrom = "chain"
            /\ dialogResponse = calls[i].result.resp
            /\ \A j \in Positions : calls[j].stage = "chain" => calls[j].pos <= calls[i].pos
            /\ \A p \in 1..(calls[i].pos - 1) : ChainPositionFailed(p)
    /\ (pc = "TryFallback") => \A p \in 1..(idx - 1) : ChainPositionFailed(p)
    /\ (pc \in {"StaticFallback", "Panicked"} \/ resultFrom = "static") =>
          \A p \in DOMAIN fallbackChain : ChainPositionFailed(p)

\* C8 witness: the first chain backend declined with CanHandle false and the
\* second one's answer of confidence 0 was returned.
C8_Witness ==
    /\ pc = "Done"
    /\ resultFrom = "chain"
    /\ dialogResponse.Confidence = 0
    /\ \E i, j \in Positions :
          /\ IsCanHandle(i, "chain") /\ calls[i].pos = 1 /\ ~calls[i].result
          /\ IsGenerate(j, "chain") /\ calls[j].pos = 2 /\ ~calls[j].result.err

\* C9 as stated: the response returned is the static fallback response if
\* and only if neither the default nor a chain backend was accepted, and it
\* then has type "fallback", confidence 0.1, one of the context's fallback
\* strings as text and the context's fallback animation.
C9_StaticFallbackAsStated ==
    pc = "Done" =>
        /\ (resultFrom = "static") <=> (~DefaultAccepted /\ ~ChainAccepted)
        /\ resultFrom = "static" =>
              /\ dialogResponse.ResponseType = "fallback"
              /\ dialogResponse.Confidence = 10
              /\ dialogResponse.Text \in SeqRange(ctx.FallbackResponses)
              /\ dialogResponse.Animation = ctx.FallbackAnimation

\* C9 amended: as C9, but the text is one of the context's fallback strings
\* only when the context has some and is the built-in "Hello!" text
\* otherwise, and the animation is the context's fallback animation only when
\* that is not empty and is "talking" otherwise.
C9_StaticFallback ==
    pc = "Done" =>
        /\ (resultFrom = "static") <=> (~DefaultAccepted /\ ~ChainAccepted)
        /\ resultFrom = "static" =>
              /\ dialogResponse.ResponseType = "fallback"
              /\ dialogResponse.Confidence = 10
              /\ IF ctx.FallbackResponses # <<>>
                 THEN dialogResponse.Text \in SeqRange(ctx.FallbackResponses)
                 ELSE dialogResponse.Text = "Hello!"
              /\ IF ctx.FallbackAnimation # ""
                 THEN dialogResponse.Animation = ctx.FallbackAnimation
                 ELSE dialogResponse.Animation = "talking"

\* C9 witness: the default backend and a chain backend were tried and gave
\* nothing, and the static response carries the context's second fallback
\* string and its animation.
C9_Witness ==
    /\ pc = "Done"
    /\ resultFrom = "static"
    /\ \E i \in Positions : calls[i].stage = "default"
    /\ \E i \in Positions : calls[i].stage = "chain"
    /\ dialogResponse.Text = "f2"
    /\ dialogResponse.Animation = "idle"

\* C10: every GenerateDialog call ends in Done with a response, going from
\* TryDefault through the chain positions in order to the static fallback;
\* no chain position is tried twice and GenerateResponse is invoked at most
\* 1 + len(chain) times.  Every step of a call is enabled until the call is
\* done, so a call fails to reach Done exactly when it stops elsewhere.
C10_ReachesDoneInOrder ==
    /\ pc # "Panicked"
    /\ pc = "Done" => (dialogResponse # NoResponse /\ resultFrom # "none")
    /\ pc = "TryFallback" => idx \in DOMAIN fallbackChain
    /\ Cardinality({i \in Positions : calls[i].method = "GenerateResponse"})
          <= 1 + Len(fallbackChain)
    /\ \A i, j \in Positions :
          (i < j /\ calls[i].stage = "chain" /\ calls[j].stage = "chain"
              /\ calls[i].method = calls[j].method) => calls[i].pos < calls[j].pos

WholeSession(id) ==
    LET history == conversations[id]
    IN  /\ history.InteractionID = id
        /\ Len(history.Exchanges) \in 1..history.MaxLength
        /\ id \in DOMAIN added
        /\ AllAsAdded(history.Exchanges) = LastN(added[id], history.MaxLength)

\* C13: with the sweep running concurrently with AddExchange calls on
\* several sessions, no operation fails, every tracked session is whole in
\* every state (no partial or duplicate entry), and nothing changes the
\* store while a sweep pass is between its collection and its deletion.
C13_SweepConcurrentWithAdds ==
    /\ [](~closed => /\ storePanic = "none"
                     /\ \A id \in DOMAIN conversations : WholeSession(id))
    /\ [][(sweep.active /\ sweep'.active) => conversations' = conversations]_vars

\* C13 witness: a sweep pass has collected one of two tracked sessions
\* while the AddExchange calls went to both.
C13_Witness ==
    /\ sweep.active
    /\ DOMAIN conversations = OpsIDs
    /\ Cardinality(sweep.toDelete) = 1
    /\ adds = MaxOpsAdds
    /\ \A id \in DOMAIN conversations : WholeSession(id)

\* C14: a sweep pass first collects, without changing the store, exactly
\* the sessions whose LastUpdated is before now - retentionPeriod, and then
\* deletes exactly those: every other session stays, with its history
\* unchanged.
C14_SweepRemovesExactlyStale ==
    [][/\ (~sweep.active /\ sweep'.active) =>
            /\ sweep'.cutoff = now - retentionPeriod
            /\ sweep'.toDelete =
                  {id \in DOMAIN conversations :
                      conversations[id].LastUpdated < now - retentionPeriod}
            /\ conversations' = conversations
       /\ (sweep.active /\ ~sweep'.active) =>
            /\ DOMAIN conversations' =
                  {id \in DOMAIN conversations :
                      ~(conversations[id].LastUpdated < sweep.cutoff)}
            /\ \A id \in DOMAIN conversations' : conversations'[id] = conversations[id]
      ]_vars

\* C14 witness: a pass that collected a stale session and left a session
\* last updated exactly at the cutoff.
C14_Witness ==
    /\ sweep.active
    /\ sweep.toDelete # {}
    /\ \E id \in DOMAIN conversations \ sweep.toDelete :
          conversations[id].LastUpdated = sweep.cutoff

\* C15: Close calls, one after another or concurrently, never fail, and
\* once the store is closed every further step of a Close call leaves it as
\* the first Close left it: ticker stopped, map released.
C15_CloseIdempotent ==
    /\ [](closed => tickerStopped /\ conversations = <<>>)
    /\ [][closePc' # closePc =>
            /\ storePanic' = storePanic
            /\ closed =>
                  /\ closed'
                  /\ tickerStopped' = tickerStopped
                  /\ conversations' = conversations
                  /\ <<maxHistory, maxConversations, retentionPeriod>>' =
                        <<maxHistory, maxConversations, retentionPeriod>>
         ]_vars

\* C15 witness: the store is closed and two further Close calls are under
\* way at the same time.
C15_Witness ==
    /\ closed
    /\ \A caller \in Closers : closePc[caller] = "stopped"
    /\ adds > 0

\* C16: what GetHistory returns shares nothing with the store: no step
\* changes both the store and the returned sequence, so a caller's write to
\* the sequence leaves the store as it was and a store operation leaves the
\* sequence as it was.
C16_HistoryIsIndependentCopy ==
    /\ [](~returned.shared)
    /\ [][returned' # returned => conversations' = conversations]_vars
    /\ [][conversations' # conversations => returned' = returned]_vars

\* C16 witness: the caller has overwritten an exchange of a returned
\* two-exchange history; the store still holds the responses it was given
\* and has taken a further exchange since.
C16_Witness ==
    /\ returned.valid
    /\ returned.edited
    /\ returned.interactionID \in DOMAIN conversations
    /\ Len(returned.exchanges) = 2
    /\ \A i \in DOMAIN conversations[returned.interactionID].Exchanges :
          conversations[returned.interactionID].Exchanges[i].Response \in Responses
    /\ adds = MaxOpsAdds

\* what C17 asks GetHistory to return for a session holding exchanges
MostRecent(exchanges, limit) ==
    LET n == Len(exchanges)
        k == IF limit > 0 THEN Min(limit, n) ELSE n
    IN  [i \in 1..k |-> exchanges[n - k + i]]

\* C17: for a tracked session holding n exchanges, GetHistory with
\* limit > 0 returns the min(limit, n) most recent ones, oldest first, and
\* with limit <= 0 all n; a GetHistory call hands exactly that to its caller.
C17_HistoryLimit ==
    /\ [](\A id \in DOMAIN conversations, limit \in OpsLimits :
            GetHistory(id, limit) = MostRecent(conversations[id].Exchanges, limit))
    /\ [][(returned' # returned /\ ~returned'.edited
             /\ returned'.interactionID \in DOMAIN conversations) =>
            returned'.exchanges =
                MostRecent(conversations[returned'.interactionID].Exchanges,
                           returned'.maxExchanges)]_vars

\* C17 witness: a call with limit 1 on a session holding two different
\* exchanges returned the newer one.
C17_Witness ==
    /\ returned.valid
    /\ ~returned.edited
    /\ returned.maxExchanges = 1
    /\ returned.interactionID \in DOMAIN conversations
    /\ LET exchanges == conversations[returned.interactionID].Exchanges
       IN  /\ Len(exchanges) = 2
           /\ exchanges[1] # exchanges[2]
           /\ returned.exchanges = <<exchanges[2]>>

\* C18: for an identifier the store does not track, GetHistory returns an
\* empty sequence whatever the limit, GetConversationSummary returns zero
\* counts, a zero time and empty lists, and UpdateFeedback changes nothing;
\* none of them panics and none of them starts tracking the identifier.
C18_UntrackedSession ==
    /\ [](/\ storePanic = "none"
          /\ \A id \in OpsIDs \ DOMAIN conversations :
                /\ \A limit \in OpsLimits : GetHistory(id, limit) = <<>>
                /\ LET summary == GetConversationSummary(id)
                   IN  /\ summary.ExchangeCount = 0
                       /\ summary.AvgEngagement[1] = 0
                       /\ summary.PositiveFeedback = 0
                       /\ summary.LastInteraction = ZeroTime
                       /\ summary.DominantTriggers = {}
                       /\ summary.RecentTopics = {})
    /\ [][\A id \in OpsIDs \ DOMAIN conversations :
            /\ (\E positive \in BOOLEAN, engagement \in Engagements :
                    UpdateFeedback(id, positive, engagement)) =>
                  /\ conversations' = conversations
                  /\ storePanic' = storePanic
            /\ (returned' # returned /\ ~returned'.edited /\ returned'.interactionID = id) =>
                  /\ returned'.exchanges = <<>>
                  /\ conversations' = conversations
                  /\ storePanic' = storePanic
         ]_vars

\* C18 witness: the store tracks one session; a feedback call has been made
\* that left no feedback on it, and a GetHistory call for an identifier the
\* store does not track has returned the empty sequence.
C18_Witness ==
    /\ fbs = 1
    /\ DOMAIN conversations = CopyIDs
    /\ \A id \in DOMAIN conversations :
          \A i \in DOMAIN conversations[id].Exchanges :
              conversations[id].Exchanges[i].EngagementScore = 0
    /\ returned.valid
    /\ returned.interactionID \notin DOMAIN conversations
    /\ returned.exchanges = <<>>

\* C19: UpdateFeedback on a session holding at least one exchange sets the
\* feedback fields of that session's most recent exchange and the session's
\* LastUpdated, and nothing else: the earlier exchanges, the trigger,
\* response and timestamp of the last one, the session's identifier and
\* window, and every other session stay as they were.
C19_FeedbackFrame ==
    [][\A id \in DOMAIN conversations, positive \in BOOLEAN, engagement \in Engagements :
         (Len(conversations[id].Exchanges) >= 1
            /\ UpdateFeedback(id, positive, engagement)) =>
           /\ DOMAIN conversations' = DOMAIN conversations
           /\ \A other \in DOMAIN conversations \ {id} :
                 conversations'[other] = conversations[other]
           /\ LET before == conversations[id]
                  after == conversations'[id]
                  n == Len(before.Exchanges)
              IN  /\ after.InteractionID = before.InteractionID
                  /\ after.MaxLength = before.MaxLength
                  /\ Len(after.Exchanges) = n
                  /\ \A i \in 1..(n - 1) : after.Exchanges[i] = before.Exchanges[i]
                  /\ after.Exchanges[n].Timestamp = before.Exchanges[n].Timestamp
                  /\ after.Exchanges[n].Trigger = before.Exchanges[n].Trigger
                  /\ after.Exchanges[n].Response = before.Exchanges[n].Response
                  /\ after.Exchanges[n].UserFeedback = positive
                  /\ after.Exchanges[n].EngagementScore = engagement
      ]_vars

\* C19 witness: of two tracked sessions one holds two exchanges, the newer
\* with feedback and the older without; the other session has none.
C19_Witness ==
    /\ fbs = 1
    /\ DOMAIN conversations = OpsIDs
    /\ \E id \in OpsIDs :
          /\ Len(conversations[id].Exchanges) = 2
          /\ conversations[id].Exchanges[2].UserFeedback
          /\ conversations[id].Exchanges[2].EngagementScore \in Engagements
          /\ conversations[id].Exchanges[1] = AsAdded(conversations[id].Exchanges[1])
          /\ \A other \in OpsIDs \ {id} :
                \A i \in DOMAIN conversations[other].Exchanges :
                    conversations[other].Exchanges[i] = AsAdded(conversations[other].Exchanges[i])

(***************************************************************************)
(* Properties of the prompt builder.                                       *)
(***************************************************************************)

\* C20: whatever persona, history and context the builder holds and
\* whatever maximum was set, Build completes (no panic) and returns a text
\* of at most maxTokens * 4 bytes.
C20_BuildWithinBudget ==
    built.valid =>
        /\ ~built.panic
        /\ Len(built.prompt) <= pb.maxTokens * 4

\* the text stops inside a three-byte character: after its lead byte or
\* after its first continuation byte
EndsInPartialChar(s) ==
    /\ s # <<>>
    /\ \/ s[Len(s)] = "L"
       \/ /\ s[Len(s)] = "T"
          /\ ~(Len(s) >= 3 /\ s[Len(s) - 2] = "L" /\ s[Len(s) - 1] = "T")

\* Build shortened the text it had put together
Truncated == built.valid /\ ~built.panic /\ Len(built.prompt) < Len(Assemble(pb))

\* C21: when Build truncates, the text it returns does not end inside a
\* multi-byte character, wherever the multi-byte characters of the input are.
C21_NoPartialCharacter == Truncated => ~EndsInPartialChar(built.prompt)

\* the greatest element of a non-empty set of positions
Last(positions) == CHOOSE i \in positions : \A j \in positions : j <= i

\* the places of sentence-ending punctuation in the last fifth of the budget
SentenceEnds(s, limit) == {i \in 1..limit : s[i] = "." /\ i * 5 > limit * 4}

\* the places of whitespace within the budget
WhitespaceAt(s, limit) == {i \in 1..limit : s[i] \in {" ", "\n"}}

\* C22: a text over the budget is cut after the last sentence-ending
\* punctuation mark of the last fifth of the budget when there is one;
\* otherwise at the last whitespace within the budget (the whitespace kept or
\* dropped); otherwise at the budget, with a truncation marker at its end.
C22_CutAtBoundary ==
    Truncated =>
        LET full == Assemble(pb)
            limit == pb.maxTokens * CharsPerToken
        IN  IF SentenceEnds(full, limit) # {}
            THEN built.prompt = SubSeq(full, 1, Last(SentenceEnds(full, limit)))
            ELSE IF WhitespaceAt(full, limit) # {}
            THEN \/ built.prompt = SubSeq(full, 1, Last(WhitespaceAt(full, limit)))
                 \/ built.prompt = SubSeq(full, 1, Last(WhitespaceAt(full, limit)) - 1)
            ELSE /\ Len(built.prompt) <= limit
                 /\ built.prompt # <<>>
                 /\ built.prompt[Len(built.prompt)] = "."

\* the text holds a placeholder
HoldsPlaceholder(s) == \E i \in DOMAIN s : s[i] \in Placeholders

\* the template with every placeholder replaced by its value, in one pass
RECURSIVE Substituted(_, _)
Substituted(template, builder) ==
    LET at == {i \in DOMAIN template : template[i] \in Placeholders}
    IN  IF at = {} THEN template
        ELSE LET first == CHOOSE i \in at : \A j \in at : i <= j
             IN  SubSeq(template, 1, first - 1) \o Replacements(builder)[template[first]]
                     \o Substituted(SubSeq(template, first + 1, Len(template)), builder)

\* C23 as stated: whatever the values hold, the result of BuildFromTemplate
\* holds no placeholder.
C23_NoPlaceholderLeftAsStated ==
    fromTemplate.pc = "done" => ~HoldsPlaceholder(fromTemplate.result)

\* C23 amended: when no value holds the text of a placeholder, the result
\* holds no placeholder and is the template with each placeholder replaced by
\* its value, an unset value by the empty text, in whatever order the loop
\* visits the placeholders.
C23_NoPlaceholderLeft ==
    (/\ fromTemplate.pc = "done"
     /\ \A placeholder \in Placeholders : ~HoldsPlaceholder(Replacements(pb)[placeholder]))
        => /\ ~HoldsPlaceholder(fromTemplate.result)
           /\ fromTemplate.result = Substituted(fromTemplate.template, pb)

\* the template of the test returned with the persona unset and the time of
\* day set: the unset value is replaced by the empty text
C23_Witness ==
    /\ fromTemplate.pc = "done"
    /\ HoldsPlaceholder(fromTemplate.template)
    /\ pb.personality = <<>>
    /\ pb.context.TimeOfDay # <<>>
    /\ ~HoldsPlaceholder(fromTemplate.result)

(***************************************************************************)
(* Properties of the dialog manager's setup and of the static fallback.    *)
(***************************************************************************)

\* C24: SetDefaultBackend with an unregistered name, and SetFallbackChain
\* with a list that holds an unregistered name, return the not-registered
\* error and leave the registry, the default backend and the fallback chain
\* as they were; a step that changes the default or the chain reports no
\* error and sets registered names only.
C24_RejectedSetupChangesNothing ==
    [][/\ \A name \in Names :
            (SetDefaultBackend(name) /\ name \notin DOMAIN backends)
                => (setupErr' = "notRegistered" /\ UNCHANGED registry)
       /\ \A names \in SeqsUpTo(Names, MaxChain + 1) :
            (SetFallbackChain(names) /\ \E i \in DOMAIN names : names[i] \notin DOMAIN backends)
                => (setupErr' = "notRegistered" /\ UNCHANGED registry)
       /\ (defaultBackend' # defaultBackend \/ fallbackChain' # fallbackChain)
            => /\ setupErr' = "nil"
               /\ defaultBackend' # defaultBackend => defaultBackend' \in DOMAIN backends
               /\ fallbackChain' # fallbackChain
                    => \A i \in DOMAIN fallbackChain' : fallbackChain'[i] \in DOMAIN backends]_vars

\* a setup call was rejected after a default and a chain had been configured
C24_Witness ==
    /\ setupErr = "notRegistered"
    /\ defaultBackend \in DOMAIN backends
    /\ fallbackChain # <<>>
    /\ \E name \in Names : name \notin DOMAIN backends

\* the text the static fallback picks when the clock reads nanos
PickedAt(nanos) ==
    ctx.FallbackResponses[FallbackIndex(nanos, Len(ctx.FallbackResponses), intBits) + 1]

\* the clock readings at which the index is inside the list
InRange(nanos) ==
    FallbackIndex(nanos, Len(ctx.FallbackResponses), intBits)
        \in 0..(Len(ctx.FallbackResponses) - 1)

\* C26 as stated: the static fallback text does not depend on the clock: the
\* text a call returns is the text it would have returned from the same state
\* and context at any other clock reading.
C26_SameTextAsStated ==
    [][(createFallbackResponse /\ pc' = "Done" /\ Len(ctx.FallbackResponses) > 0)
          => \A nanos \in ClockSamples : InRange(nanos) => dialogResponse'.Text = PickedAt(nanos)]_vars

\* C26 amended: the static fallback text is one of the context's fallback
\* strings (the default text when there is none), picked by the clock; it is
\* the same at every clock reading when the list holds at most one string;
\* animation, confidence and type do not depend on the clock.
C26_SameText ==
    [][(createFallbackResponse /\ pc' = "Done")
          => /\ dialogResponse'.Text \in
                    (IF Len(ctx.FallbackResponses) > 0 THEN SeqRange(ctx.FallbackResponses)
                     ELSE {DefaultText})
             /\ Len(ctx.FallbackResponses) = 1
                    => \A nanos \in ClockSamples :
                          InRange(nanos) /\ dialogResponse'.Text = PickedAt(nanos)
             /\ dialogResponse'.Animation = FallbackAnimationOf(ctx)
             /\ dialogResponse'.Confidence = FallbackConfidence
             /\ dialogResponse'.ResponseType = "fallback"]_vars

\* a static fallback was returned for a context with exactly one string
C26_Witness ==
    /\ pc = "Done"
    /\ resultFrom = "static"
    /\ Len(ctx.FallbackResponses) = 1
    /\ dialogResponse.Text = ctx.FallbackResponses[1]

\* C27: the static fallback cannot fail: at every clock reading and on both
\* int widths the index lies in 0..len-1, the step never panics, and a
\* response is produced when the list is empty.
C27_StaticFallbackCannotFail ==
    /\ pc # "Panicked"
    /\ (pc = "StaticFallback" /\ Len(ctx.FallbackResponses) > 0)
          => \A nanos \in ClockSamples : InRange(nanos)
    /\ (pc = "Done" /\ resultFrom = "static" /\ Len(ctx.FallbackResponses) = 0)
          => dialogResponse.Text = DefaultText

(***************************************************************************)
(* Properties of the store's lock.                                         *)
(***************************************************************************)

\* goroutine g is between the Lock and the Unlock of a store operation
Inside(g) == proc[g].pc # "idle"

\* C28: while a writer (AddExchange, UpdateFeedback, ClearHistory, the sweep,
\* an eviction inside AddExchange) is between its Lock and its Unlock, no
\* other goroutine is inside a store operation; two goroutines are inside
\* together only when both are readers.
C28_WritersAreAlone ==
    \A g1, g2 \in Goroutines :
        (g1 # g2 /\ Inside(g1) /\ Inside(g2))
            => (proc[g1].op \in ReadOps /\ proc[g2].op \in ReadOps)

\* two readers are inside at once
C28_Witness ==
    /\ \A g \in Goroutines : Inside(g) /\ proc[g].op \in ReadOps
    /\ \E g \in Goroutines : proc[g].op = "GetHistory"
    /\ \E id \in LockIDs : id \in DOMAIN conversations

\* the stages a history goes through as the exchanges of appended are
\* added one by one to a window of maxLength
Stages(appended, maxLength) == {LastN(SubSeq(appended, 1, k), maxLength) : k \in 0..Len(appended)}

\* no store operation is under way
Quiet == \A g \in Goroutines : ~Inside(g)

\* every exchange of the history carries the trigger and the response of one
\* and the same call
FromOneCall(exchanges) ==
    \A i \in DOMAIN exchanges :
        \E g \in Goroutines :
            /\ exchanges[i].Trigger = CallTrigger(g)
            /\ exchanges[i].Response = CallResponse(g)

\* the sessions AddExchange has been called on
Called == {id \in LockIDs : addCalls[id] > 0}

\* what a GetHistory or GetConversationSummary call that has its result saw
\* is a stage of the session's history before or after an append
SeesWholeAppends(g) ==
    (proc[g].pc = "done" /\ proc[g].id \in DOMAIN added) =>
        /\ proc[g].op = "GetHistory" =>
              \E stage \in Stages(added[proc[g].id], maxHistory) :
                  proc[g].result = MostRecent(stage, proc[g].limit)
        /\ proc[g].op = "GetConversationSummary" =>
              \E stage \in Stages(added[proc[g].id], maxHistory) :
                  proc[g].result.ExchangeCount = Len(stage)

\* C29 as stated: with AddExchange the only writer, once no call is under way
\* every session called holds exactly min(calls made to it, window)
\* exchanges, each with the trigger and the response of one call, and a
\* concurrent GetHistory or GetConversationSummary returns a stage of the
\* history before or after an append.
C29_AddExchangeAtomicAsStated ==
    onlyAdds =>
        /\ Quiet =>
              \A id \in Called :
                  /\ id \in DOMAIN conversations
                  /\ Len(conversations[id].Exchanges) = Min(addCalls[id], maxHistory)
                  /\ FromOneCall(conversations[id].Exchanges)
        /\ \A g \in Goroutines : SeesWholeAppends(g)

\* the calls made so far were on no more sessions than the store may track,
\* so that none of them evicted a session
NoEviction == maxConversations <= 0 \/ Cardinality(Called) <= maxConversations

\* C29: with AddExchange the only writer and no session evicted, no append is
\* lost or torn.  Once no call is under way every session called holds the
\* last min(n, window) of the n exchanges the calls on it appended, n the
\* number of those calls, each exchange with the trigger and the response of
\* one call; what a concurrent GetHistory or GetConversationSummary returns
\* is a stage of the history before or after an append.
C29_AddExchangeAtomic ==
    (onlyAdds /\ NoEviction) =>
        /\ Quiet =>
              \A id \in Called :
                  /\ id \in DOMAIN conversations
                  /\ Len(added[id]) = addCalls[id]
                  /\ conversations[id].Exchanges = LastN(added[id], maxHistory)
                  /\ Len(conversations[id].Exchanges) = Min(addCalls[id], maxHistory)
                  /\ FromOneCall(conversations[id].Exchanges)
        /\ \A g \in Goroutines : SeesWholeAppends(g)

\* more calls on one session than its window holds have returned, the two
\* goroutines both among the callers, and a GetHistory has its result
C29_Witness ==
    /\ onlyAdds
    /\ NoEviction
    /\ \E id \in Called :
          /\ addCalls[id] > maxHistory
          /\ Len(conversations[id].Exchanges) = maxHistory
          /\ \A g \in Goroutines :
                \E i \in DOMAIN added[id] : added[id][i].Trigger = CallTrigger(g)
          /\ \E g \in Goroutines :
                /\ proc[g].pc = "done"
                /\ proc[g].op = "GetHistory"
                /\ proc[g].id = id
                /\ proc[g].result # <<>>
    /\ \A g \in Goroutines : proc[g].op # "AddExchange"

(***************************************************************************)
(* Properties of the LLM backend.                                          *)
(***************************************************************************)

\* C25: Initialize with a configuration without modelPath returns the
\* "modelPath is required" error and changes nothing in the backend; a call
\* that returns an error leaves an uninitialized backend uninitialized; an
\* uninitialized backend's CanHandle is false and its GenerateResponse
\* returns the "not initialized" error.
C25_MissingModelPath ==
    /\ [][/\ \A config \in LLMConfigs :
               (Initialize(config) /\ config.valid /\ config.ModelPath = "")
                   => (initErr' = "modelPath is required" /\ llm' = llm)
          /\ (~llm.initialized /\ initErr' # "nil") => ~llm'.initialized
          /\ \A g \in Goroutines :
               (gens[g].pc = "checking" /\ gens'[g].pc # "checking" /\ ~llm.initialized)
                   => (gens'[g].pc = "returned" /\ gens'[g].out = NotInitialized)]_vars
    /\ [](~llm.initialized => ~LLMCanHandle(llm))

\* Initialize without modelPath has failed on a backend never initialized,
\* and a GenerateResponse call on it has returned the error
C25_Witness ==
    /\ initErr = "modelPath is required"
    /\ ~llm.initialized
    /\ llm.modelPath = ""
    /\ ~LLMCanHandle(llm)
    /\ \E g \in Goroutines : gens[g].pc = "returned" /\ gens[g].out = NotInitialized

\* goroutine g holds the backend's lock or the store's lock
HoldsLock(g) == g \in llmMu \/ mu.writer = g \/ g \in mu.readers

\* goroutine g is in no call
Idle(g) == gens[g].pc = "idle" /\ proc[g].pc = "idle"

\* the next step of the call goroutine g is in
StepOf(g) ==
    \/ GenerateCheck(g)
    \/ GenerateBuildPrompt(g)
    \/ GeneratePredict(g)
    \/ \E result \in GenResults : GeneratePredicted(g, result)
    \/ GenerateAddExchange(g)
    \/ GenerateReturn(g)
    \/ GenerateDone(g)
    \/ AddLookup(g)
    \/ AddEnsure(g)
    \/ AddAppend(g)
    \/ AddTrim(g)
    \/ ReadBody(g)
    \/ (gens[g].pc = "idle" /\ StoreLeave(g))

\* no call has ended in a runtime panic
Running == \A g \in Goroutines : gens[g].pc # "panicked"

\* C30: a goroutine whose GenerateResponse call is waiting for the model's
\* prediction holds neither llm.mu nor cm.mu; meanwhile another goroutine
\* that is in no call can enter GenerateResponse, AddExchange and GetHistory
\* on any session, and one that is in a call can take the call's next step,
\* so that its call runs to completion while the prediction lasts.
C30_NoLockWhilePredicting ==
    \A g \in Goroutines :
        (gens[g].pc = "predicting" /\ Running) =>
            /\ ~HoldsLock(g)
            /\ proc[g].pc = "idle"
            /\ \A other \in Goroutines \ {g} :
                  IF Idle(other)
                  THEN \A id \in LLMIDs :
                          /\ ENABLED GenerateEnter(other, id)
                          /\ ENABLED StoreEnter(other, "AddExchange", id, 0)
                          /\ ENABLED StoreEnter(other, "GetHistory", id, 0)
                  ELSE ENABLED StepOf(other)

\* while one goroutine waits for the prediction, the other, in a
\* GenerateResponse call of its own on another session, is inside AddExchange
\* with the write lock, which it took after the first one's GetHistory had
\* returned
C30_Witness ==
    \E g, other \in Goroutines :
        /\ gens[g].pc = "predicting"
        /\ gens[other].pc = "addExchange"
        /\ proc[other].pc = "appended"
        /\ mu.writer = other
        /\ gens[other].id # gens[g].id
        /\ gens[other].id \in DOMAIN conversations

(***************************************************************************)
(* Properties of the life of a session.                                    *)
(***************************************************************************)

\* the step is an AddExchange call on session id
IsAddExchange(id) ==
    \E trigger \in Triggers, response \in Responses : AddExchange(id, trigger, response)

\* C31: a session enters the store only in an AddExchange call on it; a
\* session leaves only by ClearHistory of it, by a sweep for which it is
\* stale, by Close, or by the eviction in an AddExchange call on a session
\* not tracked, made with maxConversations > 0 and that many sessions
\* tracked; an AddExchange call on a tracked session, or with
\* maxConversations = 0, removes no session.
C31_SessionLifecycle ==
    [][LET entered == DOMAIN conversations' \ DOMAIN conversations
           left == DOMAIN conversations \ DOMAIN conversations'
       IN  /\ \A id \in entered : IsAddExchange(id)
           /\ \A id \in left :
                 \/ ClearHistory(id)
                 \/ /\ cleanupOldConversations
                    /\ conversations[id].LastUpdated < now - retentionPeriod
                 \/ \E caller \in Closers : CloseReleaseMap(caller)
                 \/ /\ \E new \in SessionsIDs \ DOMAIN conversations : IsAddExchange(new)
                    /\ maxConversations > 0
                    /\ Cardinality(DOMAIN conversations) >= maxConversations
                    /\ left = {id}
           /\ \A id \in SessionsIDs :
                 (IsAddExchange(id) /\ (id \in DOMAIN conversations \/ maxConversations = 0))
                     => left = {}
      ]_vars

\* C31 witness: the AddExchange calls were on more sessions than are tracked
\* and nothing else was called, so that one was evicted; one is tracked.
C31_Witness ==
    /\ onlyAdds
    /\ maxConversations = 1
    /\ Cardinality(SeqRange(touched)) > Cardinality(DOMAIN conversations)
    /\ Cardinality(DOMAIN conversations) = 1

\* what AddExchange recorded of an exchange
Core(exchange) == <<exchange.Timestamp, exchange.Trigger, exchange.Response>>

\* the feedback fields of an exchange
Feedback(exchange) == <<exchange.UserFeedback, exchange.EngagementScore>>

\* the step is an UpdateFeedback call on session id
IsUpdateFeedback(id) ==
    \E positive \in BOOLEAN, engagement \in Engagements : UpdateFeedback(id, positive, engagement)

\* the exchange has had its feedback set: every call passes an engagement
\* above 0, and an exchange is created with 0
FeedbackSet(exchange) == exchange.EngagementScore # 0

\* the exchanges of old that are still in new after an AddExchange on the
\* session are unchanged: new is the most recent exchanges of old followed
\* by one new exchange
OneAppended(old, new) ==
    /\ Len(new) >= 1
    /\ SubSeq(new, 1, Len(new) - 1) = LastN(old, Len(new) - 1)

\* C33 as stated: an UpdateFeedback call changes the feedback of no exchange
\* whose feedback has been set, and of an exchange neither the trigger, the
\* response nor the timestamp.
C33_FeedbackSetOnceAsStated ==
    [][\A id \in DOMAIN conversations :
          IsUpdateFeedback(id) =>
              LET old == conversations[id].Exchanges
                  new == conversations'[id].Exchanges
              IN  /\ Len(new) = Len(old)
                  /\ \A i \in DOMAIN old :
                        /\ Core(new[i]) = Core(old[i])
                        /\ FeedbackSet(old[i]) => Feedback(new[i]) = Feedback(old[i])
      ]_vars

\* C33: the trigger, the response and the timestamp of a stored exchange
\* never change, and its feedback changes only in an UpdateFeedback call on
\* its session made while it is the session's most recent exchange: such a
\* call changes nothing else, an AddExchange call leaves the exchanges that
\* stay in the window as they were, and every other step leaves the
\* sessions it does not remove as they were.
C33_FeedbackOnlyOnLatest ==
    [][\A id \in DOMAIN conversations \cap DOMAIN conversations' :
          LET old == conversations[id].Exchanges
              new == conversations'[id].Exchanges
          IN  IF IsUpdateFeedback(id)
              THEN /\ Len(new) = Len(old)
                   /\ \A i \in DOMAIN old :
                         /\ Core(new[i]) = Core(old[i])
                         /\ i < Len(old) => new[i] = old[i]
              ELSE IF IsAddExchange(id)
              THEN OneAppended(old, new)
              ELSE new = old
      ]_vars

\* C33 witness: two UpdateFeedback calls were made and the session holds two
\* exchanges, the older one with the feedback it was given while it was the
\* most recent.
C33_Witness ==
    \E id \in DOMAIN conversations :
        /\ fbs = 2
        /\ Len(conversations[id].Exchanges) = 2
        /\ \A i \in 1..2 : FeedbackSet(conversations[id].Exchanges[i])

\* C37: an AddExchange call on a session not tracked, made with
\* maxConversations > 0 and that many sessions tracked, removes exactly one
\* tracked session, one whose LastUpdated is the oldest, and then tracks the
\* new session as well, whatever the identifiers of the sessions.
C37_EvictsOneOldest ==
    [][\A id \in SessionsIDs \ DOMAIN conversations :
         (/\ IsAddExchange(id)
          /\ maxConversations > 0
          /\ Cardinality(DOMAIN conversations) >= maxConversations)
         => \E victim \in DOMAIN conversations :
               /\ \A other \in DOMAIN conversations :
                     conversations[victim].LastUpdated <= conversations[other].LastUpdated
               /\ DOMAIN conversations' = (DOMAIN conversations \ {victim}) \cup {id}]_vars

\* C40: once Close has released the map, no store operation ends in a
\* panic; GetHistory, GetConversationSummary and GetActiveConversations
\* report an empty store, and no operation changes it.
C40_StoreUsableAfterClose ==
    /\ [](closed => /\ storePanic = "none"
                    /\ GetActiveConversations = 0
                    /\ \A id \in SessionsIDs :
                          /\ GetHistory(id, 0) = <<>>
                          /\ GetConversationSummary(id) = ZeroSummary)
    /\ [][closed => conversations' = conversations]_vars

(***************************************************************************)
(* Properties of the background task.                                      *)
(***************************************************************************)

\* C32: once a Close call has returned, the cleanupRoutine goroutine starts
\* no further cleanupOldConversations pass, and it eventually ends.
C32_SweepStopsAfterClose ==
    /\ [][closed => ~(routine = "waiting" /\ routine' = "received")]_vars
    /\ [](closed => <>(routine = "ended"))

(***************************************************************************)
(* Properties of UpdateBackendMemory.                                      *)
(***************************************************************************)
\* the backends whose UpdateMemory the call made
Updated == {calls[i].name : i \in {j \in DOMAIN calls : calls[j].method = "UpdateMemory"}}

\* C34: an UpdateBackendMemory call returns, whatever error the backend
\* gives; it calls UpdateMemory of exactly one backend when some backend
\* can handle the context and of none otherwise, and the backend it calls
\* is the same under every order in which the registry can be walked.
C34_OneBackendUpdated ==
    [][\A order \in Orders(DOMAIN backends), able \in SUBSET Names, failed \in BOOLEAN :
         UpdateBackendMemory(order, able, failed)
         => /\ pc' = "idle"
            /\ genErr' = genErr
            /\ Updated' = IF able \cap DOMAIN backends = {} THEN {}
                          ELSE {MemoryTarget(order, able)}
            /\ Cardinality({i \in DOMAIN calls' : calls'[i].method = "UpdateMemory"})
                 = Cardinality(Updated')
            /\ \A other \in Orders(DOMAIN backends) :
                  MemoryTarget(other, able) = MemoryTarget(order, able)]_vars

(***************************************************************************)
(* Properties of LLMBackend.GenerateResponse.                              *)
(***************************************************************************)
\* C35: an Initialize call that succeeds with a configuration that does not
\* mention fallbackEnabled leaves fallback enabled, and with fallback
\* enabled a generation that fails or times out makes GenerateResponse
\* return the backend's fallback response (confidence 0.3, type "fallback")
\* and no error.
C35_FallbackEnabledByDefault ==
    [][/\ \A config \in LLMConfigs :
            (Initialize(config) /\ initErr' = "nil" /\ config.FallbackEnabled = "absent")
            => llm'.fallbackEnabled
       /\ \A g \in Goroutines, result \in {"error", "timeout"} :
            (GeneratePredicted(g, result) /\ llm.fallbackEnabled)
            => /\ ~gens'[g].out.err
               /\ gens'[g].out.resp.Confidence = LLMFallbackConfidence
               /\ gens'[g].out.resp.ResponseType = "fallback"]_vars

(***************************************************************************)
(* Properties of cleanResponse.                                            *)
(***************************************************************************)
\* C36: cleanResponse returns for every model output, and what it returns
\* is not empty.
C36_CleanResponseReturnsText ==
    cleaned.called => (~cleaned.panic /\ Len(cleaned.text) > 0)

\* the most recent exchange of the session of goroutine g's call
LatestOf(g) ==
    conversations[gens[g].id].Exchanges[Len(conversations[gens[g].id].Exchanges)]

\* C38: a GenerateResponse call whose generation succeeded returns after it
\* has appended exactly one exchange, with the call's trigger and the text
\* it returns, to its session; a call that returns an error or the backend's
\* fallback response has appended none.
C38_OneExchangePerSuccess ==
    \A g \in Goroutines :
        /\ gens[g].appended <= 1
        /\ (gens[g].pc = "addExchange" /\ proc[g].pc \in {"appended", "done"})
           => /\ gens[g].appended = 1
              /\ LatestOf(g).Trigger = CallTrigger(g)
              /\ LatestOf(g).Response = CallResponse(g)
        /\ gens[g].pc = "returned"
           => IF gens[g].out.gen = "ok"
              THEN /\ ~gens[g].out.err
                   /\ gens[g].out.resp.Text = CallResponse(g)
                   /\ gens[g].appended = 1
              ELSE /\ gens[g].out.err \/ gens[g].out.resp.ResponseType = "fallback"
                   /\ gens[g].appended = 0

\* C38 witness: one call has returned a generated text and has appended its
\* exchange; another has returned the fallback response and appended none.
C38_Witness ==
    \E g, h \in Goroutines :
        /\ gens[g].pc = "returned" /\ gens[g].out.gen = "ok" /\ gens[g].appended = 1
        /\ gens[h].pc = "returned" /\ gens[h].out.resp.ResponseType = "fallback"
        /\ gens[h].appended = 0

\* C39: whatever Close calls run while GenerateResponse calls are under way,
\* no call reaches llm.model.Predict with the model released: every call
\* goes on to return a response or an error.
C39_CloseNeverCrashesGeneration ==
    \A g \in Goroutines : gens[g].pc \in {"idle", "checking", "buildPrompt", "predicting",
                                          "addExchange", "returned"}

====
